---- MODULE Spec2Model ----
(***************************************************************************)
(* HybridWebCache: the facade (set/get/has/unset/getAll/getJson over a     *)
(* key path), the four storage strategies (Memory, LocalStorage,           *)
(* SessionStorage, IndexedDB) with their in-memory mirror, and the TTL     *)
(* helpers of Utils.                                                       *)
(*                                                                         *)
(* Strings that the code parses (key paths, storage keys) are sequences of *)
(* one-character strings, so that Utils.getKey and lodash's path parsing   *)
(* are computed and not assumed.  A JSON value is a record                 *)
(*   [t, s, f, len]                                                        *)
(* t the type tag, s the number of a scalar, f the own properties of an    *)
(* object or array (property name -> value; an array index is the property *)
(* named by its decimal digits, a hole is a missing index), len the length *)
(* of an array.                                                            *)
(***************************************************************************)
EXTENDS Integers, Sequences, FiniteSets, TLC

\* ------------------------------------------------------------------ bounds
MaxWrites == 2
MaxReads == 1
MaxTicks == 1
MaxRestarts == 1

\* ------------------------------------------------------------ JSON values
EmptyMap == <<>>

Undefined == [t |-> "undefined", s |-> 0, f |-> EmptyMap, len |-> 0]
Null == [t |-> "null", s |-> 0, f |-> EmptyMap, len |-> 0]
Num(n) == [t |-> "number", s |-> n, f |-> EmptyMap, len |-> 0]
Obj(f) == [t |-> "object", s |-> 0, f |-> f, len |-> 0]
Arr(f, n) == [t |-> "array", s |-> 0, f |-> f, len |-> n]

\* lodash isObject: typeof value is 'object' or 'function', and not null
isObject(v) == v.t \in {"object", "array"}

\* a property map with one more (or one replaced) property
MapPut(f, k, v) == [x \in (DOMAIN f) \cup {k} |-> IF x = k THEN v ELSE f[x]]

\* a property map with property k deleted
MapDel(f, k) ==
    IF (DOMAIN f) \ {k} = {} THEN EmptyMap ELSE [x \in (DOMAIN f) \ {k} |-> f[x]]

\* object[key] of JavaScript: undefined for a missing property and for every
\* property of a number
Prop(v, k) == IF isObject(v) /\ k \in DOMAIN v.f THEN v.f[k] ELSE Undefined

\* ------------------------------------------------- decimal array indices
Digits == <<"0", "1", "2", "3", "4", "5", "6", "7", "8", "9">>

DigitValue(c) == (CHOOSE i \in 1..10 : Digits[i] = c) - 1

IsDigit(c) == \E i \in 1..10 : Digits[i] = c

RECURSIVE ParseNat(_)
ParseNat(chars) ==
    IF chars = <<>> THEN 0
    ELSE 10 * ParseNat(SubSeq(chars, 1, Len(chars) - 1)) + DigitValue(chars[Len(chars)])

\* lodash isIndex on a string: /^(?:0|[1-9]\d*)$/
isIndex(chars) ==
    /\ Len(chars) > 0
    /\ \A i \in 1..Len(chars) : IsDigit(chars[i])
    /\ (Len(chars) > 1 => chars[1] # "0")

\* object[key] = value of JavaScript: on an array, writing index i >= length
\* makes the length i + 1
Assign(node, k, v) ==
    IF node.t = "array"
    THEN Arr(MapPut(node.f, k, v),
             IF isIndex(k) /\ ParseNat(k) >= node.len THEN ParseNat(k) + 1 ELSE node.len)
    ELSE Obj(MapPut(node.f, k, v))

\* delete object[key] of JavaScript: an array keeps its length (a hole is left)
Delete(node, k) ==
    IF node.t = "array" THEN Arr(MapDel(node.f, k), node.len) ELSE Obj(MapDel(node.f, k))

\* ----------------------------------------------------------- lodash paths
Special == {".", "[", "]"}

\* the longest prefix of chars made of characters outside Special
RECURSIVE NamePrefix(_)
NamePrefix(chars) ==
    IF chars = <<>> \/ chars[1] \in Special THEN <<>>
    ELSE <<chars[1]>> \o NamePrefix(Tail(chars))

\* lodash stringToPath: a leading '.' gives an empty first segment; then every
\* run of characters outside '.', '[' and ']' is a segment, and a '.' that is
\* followed by '.' or by the end gives an empty segment
RECURSIVE Segments(_)
Segments(chars) ==
    IF chars = <<>> THEN <<>>
    ELSE IF chars[1] = "."
         THEN IF Len(chars) = 1 \/ chars[2] = "."
              THEN << <<>> >> \o Segments(Tail(chars))
              ELSE Segments(Tail(chars))
    ELSE IF chars[1] \in Special THEN Segments(Tail(chars))
    ELSE LET name == NamePrefix(chars)
         IN  <<name>> \o Segments(SubSeq(chars, Len(name) + 1, Len(chars)))

stringToPath(chars) ==
    IF chars # <<>> /\ chars[1] = "."
    THEN << <<>> >> \o Segments(Tail(chars))
    ELSE Segments(chars)

\* lodash reIsDeepProp: the string holds a '.' or a bracketed part
HasDeepProp(chars) ==
    \/ \E i \in 1..Len(chars) : chars[i] = "."
    \/ \E i, j \in 1..Len(chars) :
          /\ i < j /\ chars[i] = "[" /\ chars[j] = "]"
          /\ \A m \in (i + 1)..(j - 1) : chars[m] \notin {"[", "]"}

\* lodash isKey: a plain property name, or a property the object already has
isKey(chars, object) ==
    \/ ~HasDeepProp(chars)
    \/ (isObject(object) /\ chars \in DOMAIN object.f)

\* A key path is [kind, s]: kind "array" with s the segments, kind "string"
\* with s the characters, or kind "undefined" (no argument given).
\* lodash castPath
castPath(keyPath, object) ==
    IF keyPath.kind = "array" THEN keyPath.s
    ELSE IF isKey(keyPath.s, object) THEN <<keyPath.s>>
    ELSE stringToPath(keyPath.s)

\* lodash baseGet over an already cast path
RECURSIVE baseGet(_, _)
baseGet(object, path) ==
    IF path = <<>> THEN object
    ELSE IF object.t \in {"undefined", "null"} THEN Undefined
    ELSE baseGet(Prop(object, Head(path)), Tail(path))

\* lodash get(object, path): undefined for an empty path
lodashGet(object, keyPath) ==
    LET path == castPath(keyPath, object)
    IN  IF path = <<>> THEN Undefined ELSE baseGet(object, path)

\* lodash baseSet over an already cast path: intermediate values that are not
\* objects are replaced by [] when the next segment is an index, else by {}
RECURSIVE baseSet(_, _, _)
baseSet(nested, path, value) ==
    IF path = <<>> THEN nested
    ELSE IF Len(path) = 1 THEN Assign(nested, path[1], value)
    ELSE LET objValue == Prop(nested, path[1])
             newValue == IF isObject(objValue) THEN objValue
                         ELSE IF isIndex(path[2]) THEN Arr(EmptyMap, 0)
                         ELSE Obj(EmptyMap)
         IN  Assign(nested, path[1], baseSet(newValue, Tail(path), value))

\* lodash set(object, path, value): the object after the in-place update
lodashSet(object, keyPath, value) ==
    IF ~isObject(object) THEN object ELSE baseSet(object, castPath(keyPath, object), value)

\* lodash baseUnset over an already cast path: the object after
\* delete parent[last(path)]; nothing changes when the parent is missing or is
\* not an object.  An empty path deletes the property named "undefined".
RECURSIVE baseUnset(_, _)
baseUnset(object, path) ==
    IF path = <<>> THEN object
    ELSE IF ~isObject(object) THEN object
    ELSE IF Len(path) = 1 THEN Delete(object, path[1])
    ELSE IF path[1] \notin DOMAIN object.f THEN object
    ELSE Assign(object, path[1], baseUnset(object.f[path[1]], Tail(path)))

\* lodash unset(object, path): the object after the in-place update
lodashUnset(object, keyPath) == baseUnset(object, castPath(keyPath, object))

\* lodash unset's result: true unless the delete fails, which it never does on
\* the plain objects and arrays of a JSON document
lodashUnsetResult(object, keyPath) == TRUE

\* ------------------------------------------------------------------ Utils
Str(chars) == [kind |-> "string", s |-> chars]
Path(segments) == [kind |-> "array", s |-> segments]
NoKeyPath == [kind |-> "undefined", s |-> <<>>]
NullKeyPath == [kind |-> "null", s |-> <<>>]

\* an optional storage key: the argument of StorageBase.unset(key?)
Key(chars) == [defined |-> TRUE, s |-> chars]
NoKey == [defined |-> FALSE, s |-> <<>>]

\* !key of JavaScript: undefined and the empty string are falsy
Falsy(key) == ~key.defined \/ key.s = <<>>

\* if (keyPath) of JavaScript: an array, even an empty one, is truthy
Truthy(keyPath) ==
    \/ keyPath.kind = "array"
    \/ (keyPath.kind = "string" /\ keyPath.s # <<>>)

\* Utils.getKey: the first segment of an array key path; of a string, what
\* precedes the first '.', '[' or ']', or the whole string when that is empty
getKey(keyPath) ==
    IF keyPath.kind = "array"
    THEN IF Len(keyPath.s) > 0 THEN keyPath.s[1] ELSE <<>>
    ELSE IF NamePrefix(keyPath.s) # <<>> THEN NamePrefix(keyPath.s) ELSE keyPath.s

\* Array.prototype.toString: the segments joined by ','
RECURSIVE Join(_)
Join(segments) ==
    IF segments = <<>> THEN <<>>
    ELSE IF Len(segments) = 1 THEN segments[1]
    ELSE segments[1] \o <<",">> \o Join(Tail(segments))

\* keyPath.toString()
toString(keyPath) == IF keyPath.kind = "array" THEN Join(keyPath.s) ELSE keyPath.s

\* A TTL is [kind, n, f]: kind "number" with n milliseconds, kind "struct" with
\* f the given fields, or kind "undefined" (the call gives none).
TtlNumber(n) == [kind |-> "number", n |-> n, f |-> EmptyMap]
TtlStruct(f) == [kind |-> "struct", n |-> 0, f |-> f]
NoTtl == [kind |-> "undefined", n |-> 0, f |-> EmptyMap]

\* (ttl.field || 0)
TtlField(ttl, name) == IF name \in DOMAIN ttl.f THEN ttl.f[name] ELSE 0

\* Utils.convertTTLToMilliseconds
convertTTLToMilliseconds(ttl) ==
    IF ttl.kind = "number" THEN ttl.n
    ELSE LET s == TtlField(ttl, "seconds") * 1000
             m == TtlField(ttl, "minutes") * 60 * 1000
             h == TtlField(ttl, "hours") * 60 * 60 * 1000
             d == TtlField(ttl, "days") * 24 * 60 * 60 * 1000
         IN  s + m + h + d

\* Utils.isExpired, with Date.now() = t
isExpiredAtZero(expiresAt, t) == expiresAt <= t

isExpiredAfter(expiresAt, t) == IF expiresAt > 0 THEN expiresAt < t ELSE FALSE

isExpired(expiresAt, t) == IF expiresAt > 0 THEN expiresAt <= t ELSE FALSE

\* ------------------------------------------------- Map<string, DataModel>
\* A JavaScript Map is the sequence of its [key, data] pairs in insertion
\* order; data is [value, expiresAt].
Data(value, expiresAt) == [value |-> value, expiresAt |-> expiresAt]
NoData == Data(Undefined, 0)
IsData(d) == d.value.t # "undefined"

MapHas(m, k) == \E i \in 1..Len(m) : m[i].key = k

MapGet(m, k) ==
    IF MapHas(m, k) THEN m[CHOOSE i \in 1..Len(m) : m[i].key = k].data ELSE NoData

\* Map.set: an existing key keeps its position
MapSet(m, k, d) ==
    IF MapHas(m, k)
    THEN [i \in 1..Len(m) |-> IF m[i].key = k THEN [key |-> k, data |-> d] ELSE m[i]]
    ELSE Append(m, [key |-> k, data |-> d])

MapDelete(m, k) == SelectSeq(m, LAMBDA e : e.key # k)

MapKeys(m) == {m[i].key : i \in 1..Len(m)}

\* the Map as a function of its keys, its order forgotten
MapFn(m) == [k \in MapKeys(m) |-> MapGet(m, k)]

\* ------------------------------------------------------ JSON text of data
\* JSON.stringify then JSON.parse of a value: a hole of an array becomes null
\* and the properties of an array that are no index below its length are lost
RECURSIVE JsonValue(_)
JsonValue(v) ==
    IF v.t = "array"
    THEN Arr([k \in {c \in {<<Digits[i]>> : i \in 1..10} : ParseNat(c) < v.len}
                |-> IF k \in DOMAIN v.f THEN JsonValue(v.f[k]) ELSE Null],
             v.len)
    ELSE IF v.t = "object"
    THEN Obj([k \in DOMAIN v.f |-> JsonValue(v.f[k])])
    ELSE v

\* JSON.parse(JSON.stringify(data)) of a DataModel
JsonData(data) == Data(JsonValue(data.value), data.expiresAt)

\* --------------------------------------------------------------- strategies
\* The operations of a strategy act on a world W, the part of the state one
\* instance reaches:
\*   mc      its Map (MemoryStrategy.storage, memoryCache of the others)
\*   ws      its localStorage or sessionStorage, as [key, data] pairs in key(i)
\*           order, data being what JSON.parse gives of the stored text
\*   idb     the IndexedDB object store, as [key, data] pairs in key order
\*   tx      the IndexedDB transactions created and not yet completed
\*   posted  the messages it has posted on its BroadcastChannel
\* and give [w, r]: the world after and the result.
Ret(w, r) == [w |-> w, r |-> r]

Msg(action, key, data) == [action |-> action, key |-> key, value |-> data]

\* channel.postMessage(m); seen keeps what the instance held at that moment
Post(W, m) ==
    [W EXCEPT !.posted = Append(@, m),
              !.seen = Append(@, [mc |-> W.mc, tx |-> W.tx])]

\* the name of the store: new HybridWebCache(baseName)
BaseName == <<"h">>

\* the default of the parameter baseName
DefaultName == <<"H", "y", "b", "r", "i", "d", "W", "e", "b", "C", "a", "c", "h", "e">>

\* String.prototype.trim, for the space character
RECURSIVE trim(_)
trim(str) ==
    IF str = <<>> THEN <<>>
    ELSE IF Head(str) = " " THEN trim(Tail(str))
    ELSE IF str[Len(str)] = " " THEN trim(SubSeq(str, 1, Len(str) - 1))
    ELSE str

\* prefixKey of LocalStorageStrategy and SessionStorageStrategy
prefixKey == trim(BaseName) \o <<":", ":">>

formattedKey(key) == prefixKey \o key

\* key?.startsWith(this.prefixKey)
startsWith(fullKey, prefix) ==
    Len(fullKey) >= Len(prefix) /\ SubSeq(fullKey, 1, Len(prefix)) = prefix

\* key.replace(this.prefixKey, "") of a key that starts with the prefix
originalKey(fullKey) == SubSeq(fullKey, Len(prefixKey) + 1, Len(fullKey))

\* _forEachStorage: the [originalKey, data] pairs of the items under the prefix
RECURSIVE forEachStorage(_)
forEachStorage(ws) ==
    IF ws = <<>> THEN <<>>
    ELSE IF startsWith(ws[1].key, prefixKey)
         THEN <<[key |-> originalKey(ws[1].key), data |-> ws[1].data]>>
              \o forEachStorage(Tail(ws))
         ELSE forEachStorage(Tail(ws))

\* loadMemoryCache: the Map after clear() and one set per item under the prefix
RECURSIVE loadInto(_, _)
loadInto(m, items) ==
    IF items = <<>> THEN m
    ELSE loadInto(MapSet(m, items[1].key, items[1].data), Tail(items))

loadMemoryCache(ws) == loadInto(<<>>, forEachStorage(ws))

\* Storage.removeItem for each key of a list
RECURSIVE removeItems(_, _)
removeItems(ws, keys) ==
    IF keys = <<>> THEN ws ELSE removeItems(MapDelete(ws, keys[1]), Tail(keys))

\* the keys of a list of [key, data] pairs, in order
KeysOf(items) == [i \in 1..Len(items) |-> items[i].key]

\* handleSyncEvent of LocalStorageStrategy and of IndexedDBStrategy, the
\* onmessage of their BroadcastChannel, on the Map of the receiving instance
handleSyncEventIgnoringSync(mc, event) ==
    CASE event.action = "clear" -> <<>>
      [] event.action = "unset" -> IF Falsy(event.key) THEN mc ELSE MapDelete(mc, event.key.s)
      [] OTHER -> mc

handleSyncEventReplacingAll(mc, event) ==
    CASE event.action = "clear" -> <<>>
      [] event.action = "unset" -> IF Falsy(event.key) THEN mc ELSE MapDelete(mc, event.key.s)
      [] event.action = "sync" -> MapSet(<<>>, event.key.s, event.value)
      [] OTHER -> mc

handleSyncEvent(mc, event) ==
    CASE event.action = "clear" -> <<>>
      [] event.action = "unset" -> IF Falsy(event.key) THEN mc ELSE MapDelete(mc, event.key.s)
      [] event.action = "sync" -> MapSet(mc, event.key.s, event.value)
      [] OTHER -> mc

\* ---- MemoryStrategy
MemoryStrategy_setSync(W, key, data) == Ret([W EXCEPT !.mc = MapSet(@, key, data)], TRUE)

MemoryStrategy_getSync(W, key) == Ret(W, MapGet(W.mc, key))

MemoryStrategy_getAllSync(W) == Ret(W, W.mc)

MemoryStrategy_hasSync(W, key) == Ret(W, MapHas(W.mc, key))

MemoryStrategy_unsetSync(W, key) ==
    IF Len(W.mc) = 0 THEN Ret(W, FALSE)
    ELSE IF Falsy(key) THEN Ret([W EXCEPT !.mc = <<>>], TRUE)
    ELSE Ret([W EXCEPT !.mc = MapDelete(@, key.s)], MapHas(W.mc, key.s))

\* ---- LocalStorageStrategy
LocalStorageStrategy_setSync(W, key, data) ==
    Ret(Post([W EXCEPT !.ws = MapSet(@, formattedKey(key), JsonData(data)),
                       !.mc = MapSet(@, key, data)],
             Msg("sync", Key(key), data)),
        TRUE)

LocalStorageStrategy_getSync(W, key) == Ret(W, MapGet(W.mc, key))

LocalStorageStrategy_getAllSync(W) == Ret(W, W.mc)

LocalStorageStrategy_hasSync(W, key) == Ret(W, MapHas(W.mc, key))

\* with no key: removeItem is called with the keys _forEachStorage hands out,
\* which have lost their prefix
LocalStorageStrategy_unsetSync(W, key) ==
    IF Len(W.mc) = 0 THEN Ret(W, FALSE)
    ELSE IF Falsy(key)
    THEN Ret(Post([W EXCEPT !.ws = removeItems(@, KeysOf(forEachStorage(W.ws))),
                            !.mc = <<>>],
                  Msg("clear", NoKey, NoData)),
             TRUE)
    ELSE IF MapHas(W.mc, key.s)
    THEN Ret(Post([W EXCEPT !.ws = MapDelete(@, formattedKey(key.s)),
                            !.mc = MapDelete(@, key.s)],
                  Msg("unset", key, NoData)),
             TRUE)
    ELSE Ret(W, FALSE)

\* ---- SessionStorageStrategy
SessionStorageStrategy_setSyncPosting(W, key, data) ==
    Ret(Post([W EXCEPT !.ws = MapSet(@, formattedKey(key), JsonData(data)),
                       !.mc = MapSet(@, key, data)],
             Msg("sync", Key(key), data)),
        TRUE)

SessionStorageStrategy_setSync(W, key, data) ==
    Ret([W EXCEPT !.ws = MapSet(@, formattedKey(key), JsonData(data)),
                  !.mc = MapSet(@, key, data)],
        TRUE)

SessionStorageStrategy_getSync(W, key) == Ret(W, MapGet(W.mc, key))

SessionStorageStrategy_getAllSync(W) == Ret(W, W.mc)

SessionStorageStrategy_hasSync(W, key) == Ret(W, MapHas(W.mc, key))

SessionStorageStrategy_unsetSync(W, key) ==
    IF Len(W.mc) = 0 THEN Ret(W, FALSE)
    ELSE IF Falsy(key)
    THEN Ret([W EXCEPT !.ws = removeItems(@, KeysOf(forEachStorage(W.ws))),
                       !.mc = <<>>],
             TRUE)
    ELSE IF MapHas(W.mc, key.s)
    THEN Ret([W EXCEPT !.ws = MapDelete(@, formattedKey(key.s)),
                       !.mc = MapDelete(@, key.s)],
             TRUE)
    ELSE Ret(W, FALSE)

\* ---- IndexedDBStrategy
\* the characters of the keys, in code unit order
CharOrder == <<",", ".", "0", "1", "2", "3", "4", "5", "6", "7", "8", "9", ":",
               "[", "]", "a", "b", "h", "k", "u">>

CharRank(c) == CHOOSE i \in 1..Len(CharOrder) : CharOrder[i] = c

\* the order of IndexedDB string keys
RECURSIVE KeyLess(_, _)
KeyLess(a, b) ==
    IF b = <<>> THEN FALSE
    ELSE IF a = <<>> THEN TRUE
    ELSE IF a[1] # b[1] THEN CharRank(a[1]) < CharRank(b[1])
    ELSE KeyLess(Tail(a), Tail(b))

\* store.put({ key, ...data }): the record replaces the one of its key or
\* takes its place in key order.  The value is a structured clone, which keeps
\* the holes of an array.
IdbPut(idb, key, data) ==
    IF MapHas(idb, key) THEN MapSet(idb, key, data)
    ELSE SelectSeq(idb, LAMBDA e : KeyLess(e.key, key))
         \o <<[key |-> key, data |-> data]>>
         \o SelectSeq(idb, LAMBDA e : KeyLess(key, e.key))

\* a transaction of execute("readwrite", ...)
Tx(op, key, data) == [op |-> op, key |-> key, data |-> data]

\* the object store after a transaction has completed
ApplyTx(idb, t) ==
    IF t.op \in {"put", "putThen"} THEN IdbPut(idb, t.key, t.data)
    ELSE IF t.op = "delete" THEN MapDelete(idb, t.key)
    ELSE IF t.op = "clear" THEN <<>>
    ELSE idb

\* await this.execute(...): the transaction has completed when the call goes on
IndexedDBStrategy_set(W, key, data) ==
    Ret(Post([W EXCEPT !.idb = ApplyTx(@, Tx("put", key, data)),
                       !.mc = MapSet(@, key, data)],
             Msg("sync", Key(key), data)),
        TRUE)

\* this.execute(...) without await: the transaction is left to complete later
IndexedDBStrategy_setSyncPostingFirst(W, key, data) ==
    Ret([Post(W, Msg("sync", Key(key), data))
            EXCEPT !.mc = MapSet(@, key, data),
                   !.tx = Append(@, Tx("put", key, data))],
        TRUE)

IndexedDBStrategy_setSync(W, key, data) ==
    Ret([Post([W EXCEPT !.mc = MapSet(@, key, data)], Msg("sync", Key(key), data))
            EXCEPT !.tx = Append(@, Tx("put", key, data))],
        TRUE)

IndexedDBStrategy_get(W, key) ==
    IF MapHas(W.mc, key) THEN Ret(W, MapGet(W.mc, key))
    ELSE IF MapHas(W.idb, key)
    THEN Ret([W EXCEPT !.mc = MapSet(@, key, MapGet(W.idb, key))], MapGet(W.idb, key))
    ELSE Ret(W, NoData)

IndexedDBStrategy_getSync(W, key) == Ret(W, MapGet(W.mc, key))

\* the cursor reads every record, then the Map is cleared and filled again
IndexedDBStrategy_getAllKeeping(W) == Ret(W, W.idb)

IndexedDBStrategy_getAll(W) == Ret([W EXCEPT !.mc = W.idb], W.idb)

IndexedDBStrategy_getAllSync(W) == Ret(W, W.mc)

IndexedDBStrategy_has(W, key) ==
    IF MapHas(W.mc, key) THEN Ret(W, TRUE)
    ELSE Ret(IndexedDBStrategy_get(W, key).w, IsData(IndexedDBStrategy_get(W, key).r))

IndexedDBStrategy_hasSync(W, key) == Ret(W, MapHas(W.mc, key))

\* a key that is not in the Map falls through to the clear
IndexedDBStrategy_unset(W, key) ==
    IF Len(W.mc) = 0 THEN Ret(W, FALSE)
    ELSE IF ~Falsy(key) /\ MapHas(W.mc, key.s)
    THEN Ret(Post([W EXCEPT !.mc = MapDelete(@, key.s),
                            !.idb = ApplyTx(@, Tx("delete", key.s, NoData))],
                  Msg("unset", key, NoData)),
             TRUE)
    ELSE Ret(Post([W EXCEPT !.mc = <<>>,
                            !.idb = ApplyTx(@, Tx("clear", <<>>, NoData))],
                  Msg("clear", NoKey, NoData)),
             TRUE)

IndexedDBStrategy_unsetSync(W, key) ==
    IF Len(W.mc) = 0 THEN Ret(W, FALSE)
    ELSE IF ~Falsy(key)
    THEN IF MapHas(W.mc, key.s)
         THEN Ret([Post([W EXCEPT !.mc = MapDelete(@, key.s)], Msg("unset", key, NoData))
                      EXCEPT !.tx = Append(@, Tx("delete", key.s, NoData))],
                  TRUE)
         ELSE Ret(W, FALSE)
    ELSE Ret([Post([W EXCEPT !.mc = <<>>], Msg("clear", NoKey, NoData))
                 EXCEPT !.tx = Append(@, Tx("clear", <<>>, NoData))],
             TRUE)

\* -------------------------------------------------------------------- state
VARIABLES
    kind,         \* the storage engine of the store (StorageBase.type)
    options,      \* the options of the instances: [ttl, removeExpired]
    live,         \* the instances that have been constructed
    available,    \* the storage engines whose availability probe succeeds
    baseName,     \* instance -> the name of its store: new HybridWebCache(baseName)
    memoryCache,  \* instance -> its Map
    webStorage,   \* browsing context -> its localStorage or sessionStorage
    idb,          \* the IndexedDB object store
    pendingTx,    \* the IndexedDB transactions created and not yet completed
    inbox,        \* instance -> the messages posted to it and not yet handled
    now,          \* Date.now()
    writes,       \* calls of set and unset made so far
    reads,        \* calls of get, has, getAll, getJson and init made so far
    ticks,        \* clock steps made so far
    restarts,     \* instances constructed anew so far
    last          \* the last call: what was asked and what it returned

vars == <<kind, options, live, available, baseName, memoryCache, webStorage, idb, pendingTx, inbox,
          now, writes, reads, ticks, restarts, last>>

Instances == {1, 2}

\* localStorage is one per origin, sessionStorage one per browsing context
StorageOf(i) == IF kind = "SessionStorage" THEN i ELSE 1

World(i) ==
    [mc |-> memoryCache[i], ws |-> webStorage[StorageOf(i)], idb |-> idb,
     tx |-> pendingTx, posted |-> <<>>, seen |-> <<>>]

\* new BroadcastChannel(`${this.prefixKey}`) of LocalStorageStrategy
LocalStorageStrategy_channel(name) == trim(name) \o <<":", ":">>

\* new BroadcastChannel(`${this.baseName}.${this.storeName}`) of IndexedDBStrategy,
\* which HybridWebCache constructs without a storeName
IndexedDBStrategy_channel(name) ==
    LET base == IF Len(trim(name)) = 0 THEN DefaultName ELSE trim(name)
        storeName == base
    IN  base \o <<".">> \o storeName

SubscribersOfEveryName(i) == live \ {i}

\* the other instances whose BroadcastChannel has the name of the channel of
\* instance i: they receive what it posts
Subscribers(i) ==
    {j \in live \ {i} :
        CASE kind = "LocalStorage" ->
                LocalStorageStrategy_channel(baseName[j]) = LocalStorageStrategy_channel(baseName[i])
          [] kind = "IndexedDB" ->
                IndexedDBStrategy_channel(baseName[j]) = IndexedDBStrategy_channel(baseName[i])
          [] OTHER -> FALSE}

\* ------------------------------------------------- StorageBase, by engine
\* sync says which form is called: setSync or set, getSync or get, ...
\* Memory, LocalStorage and SessionStorage resolve the asynchronous form with
\* the result of the synchronous one.
storageBase_set(W, sync, key, data) ==
    CASE kind = "Memory" -> MemoryStrategy_setSync(W, key, data)
      [] kind = "LocalStorage" -> LocalStorageStrategy_setSync(W, key, data)
      [] kind = "SessionStorage" -> SessionStorageStrategy_setSync(W, key, data)
      [] kind = "IndexedDB" ->
            IF sync THEN IndexedDBStrategy_setSync(W, key, data)
            ELSE IndexedDBStrategy_set(W, key, data)

storageBase_get(W, sync, key) ==
    CASE kind = "Memory" -> MemoryStrategy_getSync(W, key)
      [] kind = "LocalStorage" -> LocalStorageStrategy_getSync(W, key)
      [] kind = "SessionStorage" -> SessionStorageStrategy_getSync(W, key)
      [] kind = "IndexedDB" ->
            IF sync THEN IndexedDBStrategy_getSync(W, key)
            ELSE IndexedDBStrategy_get(W, key)

storageBase_getAll(W, sync) ==
    CASE kind = "Memory" -> MemoryStrategy_getAllSync(W)
      [] kind = "LocalStorage" -> LocalStorageStrategy_getAllSync(W)
      [] kind = "SessionStorage" -> SessionStorageStrategy_getAllSync(W)
      [] kind = "IndexedDB" ->
            IF sync THEN IndexedDBStrategy_getAllSync(W)
            ELSE IndexedDBStrategy_getAll(W)

storageBase_has(W, sync, key) ==
    CASE kind = "Memory" -> MemoryStrategy_hasSync(W, key)
      [] kind = "LocalStorage" -> LocalStorageStrategy_hasSync(W, key)
      [] kind = "SessionStorage" -> SessionStorageStrategy_hasSync(W, key)
      [] kind = "IndexedDB" ->
            IF sync THEN IndexedDBStrategy_hasSync(W, key)
            ELSE IndexedDBStrategy_has(W, key)

storageBase_unset(W, sync, key) ==
    CASE kind = "Memory" -> MemoryStrategy_unsetSync(W, key)
      [] kind = "LocalStorage" -> LocalStorageStrategy_unsetSync(W, key)
      [] kind = "SessionStorage" -> SessionStorageStrategy_unsetSync(W, key)
      [] kind = "IndexedDB" ->
            IF sync THEN IndexedDBStrategy_unsetSync(W, key)
            ELSE IndexedDBStrategy_unset(W, key)

\* storageBase.length
storageBase_length(W) == Len(W.mc)

\* ------------------------------------------------------------ HybridWebCache
\* a DataGetModel, or the undefined that get returns
DataGet(value, expiresAt, expired) ==
    [value |-> value, expiresAt |-> expiresAt, isExpired |-> expired]
NotFound == DataGet(Undefined, 0, FALSE)
Found(r) == r.value.t # "undefined"

prepareDataSetNeverExpiring(value, ttl) == Data(value, 0)

\* prepareDataSet: ttl defaults to this.options.ttl
prepareDataSet(value, ttl) ==
    LET ttlMs == convertTTLToMilliseconds(IF ttl.kind = "undefined" THEN options.ttl ELSE ttl)
    IN  Data(value, IF ttlMs > 0 THEN now + ttlMs ELSE 0)

\* if (keyPath === undefined || keyPath === null) throw new Error(...): the
\* message of the Error, "" when none is thrown
KeyPathErrorOfUndefined(keyPath) ==
    IF keyPath.kind = "undefined" THEN "KeyPath cannot be undefined or null." ELSE ""

KeyPathError(keyPath) ==
    IF keyPath.kind \in {"undefined", "null"}
    THEN "KeyPath cannot be undefined or null." ELSE ""

\* Utils.getKey of a key path that is no string and no array:
\* keyPath.toString() throws a TypeError
getKeyError(keyPath) ==
    IF keyPath.kind \in {"undefined", "null"} THEN "TypeError" ELSE ""

\* set and setSync
HybridWebCache_setAnew(W, sync, keyPath, value, ttl) ==
    storageBase_set(W, sync, getKey(keyPath),
                    prepareDataSet(lodashSet(Obj(EmptyMap), keyPath, value), ttl))

HybridWebCache_set(W, sync, keyPath, value, ttl) ==
    LET key == getKey(keyPath)
        g == storageBase_get(W, sync, key)
        obj == IF IsData(g.r) THEN g.r.value ELSE Obj(EmptyMap)
        dataSet == prepareDataSet(lodashSet(obj, keyPath, value), ttl)
    IN  storageBase_set(g.w, sync, key, dataSet)

\* unset and unsetSync
HybridWebCache_unsetRoot(W, sync, keyPath) ==
    IF storageBase_length(W) = 0 THEN Ret(W, FALSE)
    ELSE IF Truthy(keyPath)
    THEN LET g == storageBase_get(W, sync, getKey(keyPath))
         IN  IF IsData(g.r) THEN storageBase_unset(g.w, sync, Key(getKey(keyPath)))
             ELSE Ret(g.w, FALSE)
    ELSE storageBase_unset(W, sync, NoKey)

HybridWebCache_unsetUnguarded(W, sync, keyPath) ==
    IF Truthy(keyPath)
    THEN LET key == getKey(keyPath)
             g == storageBase_get(W, sync, key)
             value == lodashUnset(g.r.value, keyPath)
         IN  IF IsData(g.r)
             THEN IF lodashUnsetResult(g.r.value, keyPath)
                     /\ Cardinality(DOMAIN value.f) > 0
                  THEN Ret(storageBase_set(g.w, sync, key, Data(value, g.r.expiresAt)).w,
                           TRUE)
                  ELSE storageBase_unset(g.w, sync, Key(key))
             ELSE Ret(g.w, FALSE)
    ELSE Ret(storageBase_unset(W, sync, NoKey).w, TRUE)

HybridWebCache_unset(W, sync, keyPath) ==
    IF storageBase_length(W) = 0 THEN Ret(W, FALSE)
    ELSE IF Truthy(keyPath)
    THEN LET key == getKey(keyPath)
             g == storageBase_get(W, sync, key)
             value == lodashUnset(g.r.value, keyPath)
         IN  IF IsData(g.r)
             THEN IF lodashUnsetResult(g.r.value, keyPath)
                     /\ Cardinality(DOMAIN value.f) > 0
                  THEN Ret(storageBase_set(g.w, sync, key, Data(value, g.r.expiresAt)).w,
                           TRUE)
                  ELSE storageBase_unset(g.w, sync, Key(key))
             ELSE Ret(g.w, FALSE)
    ELSE storageBase_unset(W, sync, NoKey)

\* get and getSync
HybridWebCache_getHiding(W, sync, keyPath, removeExpired) ==
    LET g == storageBase_get(W, sync, getKey(keyPath))
        value == lodashGet(g.r.value, keyPath)
        expired == isExpired(g.r.expiresAt, now)
    IN  IF IsData(g.r) /\ value.t # "undefined" /\ ~(removeExpired /\ expired)
        THEN Ret(g.w, DataGet(value, g.r.expiresAt, expired))
        ELSE Ret(g.w, NotFound)

HybridWebCache_get(W, sync, keyPath, removeExpired) ==
    LET key == getKey(keyPath)
        g == storageBase_get(W, sync, key)
        value == lodashGet(g.r.value, keyPath)
        expired == isExpired(g.r.expiresAt, now)
    IN  IF IsData(g.r)
        THEN IF value.t = "undefined" THEN Ret(g.w, NotFound)
             ELSE IF removeExpired /\ expired
             THEN Ret(HybridWebCache_unset(g.w, sync, keyPath).w, NotFound)
             ELSE Ret(g.w, DataGet(value, g.r.expiresAt, expired))
        ELSE Ret(g.w, NotFound)

\* has and hasSync
HybridWebCache_has(W, sync, keyPath) ==
    LET key == getKey(keyPath)
        g == HybridWebCache_get(W, sync, keyPath, options.removeExpired)
    IN  IF key = toString(keyPath) THEN storageBase_has(W, sync, key)
        ELSE Ret(g.w, Found(g.r) /\ g.r.value.t # "null")

\* Object.entries(data.value)[0]: the documents of this model have one
\* property at the top, the one lodash set made of the first segment
FirstEntry(doc) ==
    LET k == CHOOSE k \in DOMAIN doc.f : TRUE
    IN  [key |-> k, value |-> doc.f[k]]

\* the loop of getAll and getAllSync over allItems.  When allItems is the Map
\* of the strategy itself (snapshot FALSE), an entry deleted before the loop
\* reaches it is not visited.
RECURSIVE getAllLoop(_, _, _, _, _, _)
getAllLoop(W, sync, allItems, snapshot, removeExpired, result) ==
    IF allItems = <<>> THEN Ret(W, result)
    ELSE IF ~snapshot /\ ~MapHas(W.mc, allItems[1].key)
    THEN getAllLoop(W, sync, Tail(allItems), snapshot, removeExpired, result)
    ELSE LET data == IF snapshot THEN allItems[1].data ELSE MapGet(W.mc, allItems[1].key)
             entry == FirstEntry(data.value)
             expired == isExpired(data.expiresAt, now)
         IN  IF removeExpired /\ expired
             THEN getAllLoop(HybridWebCache_unset(W, sync, Str(entry.key)).w, sync,
                             Tail(allItems), snapshot, removeExpired, result)
             ELSE getAllLoop(W, sync, Tail(allItems), snapshot, removeExpired,
                             MapSet(result, entry.key,
                                    DataGet(entry.value, data.expiresAt, expired)))

\* getAll and getAllSync: the Map of the results, empty for null
HybridWebCache_getAllRemoving(W, sync, removeExpired) ==
    LET a == storageBase_getAll(W, sync)
    IN  getAllLoop(a.w, sync, a.r, kind = "IndexedDB" /\ ~sync, TRUE, <<>>)

HybridWebCache_getAll(W, sync, removeExpired) ==
    LET a == storageBase_getAll(W, sync)
    IN  getAllLoop(a.w, sync, a.r, kind = "IndexedDB" /\ ~sync, removeExpired, <<>>)

\* getJson and getJsonSync: the [key, value] pairs of the object, empty for null
HybridWebCache_getJson(W, sync, removeExpired) ==
    LET all == HybridWebCache_getAll(W, sync, removeExpired)
    IN  Ret(all.w, [i \in 1..Len(all.r) |->
                       [key |-> all.r[i].key, value |-> all.r[i].data.value]])

\* resetWith and resetWithSync: keyValues is Object.entries(keyValues), each
\* key is used as a path by lodash set and as the source of the storage key
RECURSIVE resetWithEntries(_, _, _, _)
resetWithEntries(W, sync, keyValues, ttl) ==
    IF keyValues = <<>> THEN W
    ELSE LET key == Str(keyValues[1].key)
             obj == lodashSet(Obj(EmptyMap), key, keyValues[1].value)
             dataSet == prepareDataSet(obj, ttl)
         IN  resetWithEntries(storageBase_set(W, sync, getKey(key), dataSet).w, sync,
                              Tail(keyValues), ttl)

HybridWebCache_resetWith(W, sync, keyValues, ttl) ==
    Ret(resetWithEntries(storageBase_unset(W, sync, NoKey).w, sync, keyValues, ttl), TRUE)

\* ------------------------------------------------------------------- inputs
Kinds == {"Memory", "LocalStorage", "SessionStorage", "IndexedDB"}

\* defaultOptions, and an instance made with { ttl: 0, removeExpired: false }
defaultOptions ==
    [ttl |-> TtlStruct([x \in {"seconds", "minutes", "hours", "days"} |->
                           IF x = "hours" THEN 1 ELSE 0]),
     removeExpired |-> TRUE]

OptionChoices == {defaultOptions, [ttl |-> TtlNumber(0), removeExpired |-> FALSE]}

\* the ttl arguments of set: none, 1 ms, { seconds: 0 }
Ttl1 == TtlNumber(1)
TtlZero == TtlStruct([x \in {"seconds"} |-> 0])

\* "k", "k.a", "k[1]", ["k", "b"], "u", ""
Paths ==
    {Str(<<"k">>), Str(<<"k", ".", "a">>),
     Str(<<"k", "[", "1", "]">>), Path(<< <<"k">>, <<"b">> >>),
     Str(<<"u">>), Str(<<>>)}

\* { a: 1, b: 2 }, [1, 2, 3]
ObjAB == Obj([x \in {<<"a">>, <<"b">>} |-> IF x = <<"a">> THEN Num(1) ELSE Num(2)])
Arr123 ==
    Arr([x \in {<<"0">>, <<"1">>, <<"2">>} |-> Num(ParseNat(x) + 1)], 3)

\* the calls of set that are made: <<keyPath, value, ttl>>
SetInputs ==
    {<<Str(<<"k">>), ObjAB, NoTtl>>,
     <<Str(<<"k">>), Arr123, Ttl1>>,
     <<Str(<<"k">>), Null, TtlZero>>,
     <<Str(<<"k", ".", "a">>), Num(1), Ttl1>>,
     <<Path(<< <<"k">>, <<"b">> >>), Null, NoTtl>>,
     <<Str(<<"k", "[", "1", "]">>), Num(7), NoTtl>>,
     <<Str(<<"u">>), Num(1), Ttl1>>,
     <<Str(<<"u">>), Num(2), TtlZero>>,
     <<Str(<<>>), Num(1), Ttl1>>}

\* the removeExpired argument: none (this.options.removeExpired), true, false
RemoveArgs == {"undefined", "true", "false"}

\* the forms of a call that are made.  Memory, LocalStorage and SessionStorage
\* resolve the asynchronous form with the result of the synchronous one, so
\* there the synchronous call stands for both.
Forms == IF kind = "IndexedDB" THEN BOOLEAN ELSE {TRUE}
removeExpiredOf(arg) == IF arg = "undefined" THEN options.removeExpired ELSE arg = "true"

\* the steps of the clock: one hour, the default TTL
TickSteps == {3600000}

\* what other code of the page keeps in localStorage and sessionStorage
ForeignItems == <<[key |-> <<"u">>, data |-> Data(Num(9), 0)]>>

\* the engines that Utils probes: isLocalStorageAvailable, isIndexedDBAvailable,
\* isSessionStorageAvailable
Probed == {"LocalStorage", "IndexedDB", "SessionStorage"}

\* StorageEngine
StorageEngines == {"Auto", "LocalStorage", "IndexedDB", "SessionStorage", "Memory"}

\* the numbers of the enum
EngineNumber(type) ==
    CASE type = "Auto" -> 0
      [] type = "LocalStorage" -> 1
      [] type = "IndexedDB" -> 2
      [] type = "SessionStorage" -> 3
      [] OTHER -> 4

\* the message of the Error of an engine that is not available
NotAvailable(type) ==
    CASE type = "SessionStorage" -> "SessionStorage is not available"
      [] type = "LocalStorage" -> "LocalStorage is not available"
      [] OTHER -> "IndexedDB is not available"

\* StorageFactory.createStorage: the type of the strategy made, or the message
\* of the Error thrown
createStorageFallingBack(type, avail) ==
    CASE "LocalStorage" \in avail /\ type \in {"Auto", "LocalStorage"} ->
            [type |-> "LocalStorage", err |-> ""]
      [] "IndexedDB" \in avail /\ type \in {"Auto", "LocalStorage", "IndexedDB"} ->
            [type |-> "IndexedDB", err |-> ""]
      [] "SessionStorage" \in avail /\ type # "Memory" ->
            [type |-> "SessionStorage", err |-> ""]
      [] OTHER -> [type |-> "Memory", err |-> ""]

createStorageBySession(type, avail) ==
    CASE type \in Probed ->
            IF type \in avail THEN [type |-> type, err |-> ""]
            ELSE [type |-> "none", err |-> NotAvailable(type)]
      [] type = "Auto" ->
            IF "SessionStorage" \in avail THEN [type |-> "SessionStorage", err |-> ""]
            ELSE IF "LocalStorage" \in avail THEN [type |-> "LocalStorage", err |-> ""]
            ELSE IF "IndexedDB" \in avail THEN [type |-> "IndexedDB", err |-> ""]
            ELSE [type |-> "Memory", err |-> ""]
      [] OTHER -> [type |-> "Memory", err |-> ""]

createStorage(type, avail) ==
    CASE type \in Probed ->
            IF type \in avail THEN [type |-> type, err |-> ""]
            ELSE [type |-> "none", err |-> NotAvailable(type)]
      [] type = "Auto" ->
            IF "LocalStorage" \in avail THEN [type |-> "LocalStorage", err |-> ""]
            ELSE IF "IndexedDB" \in avail THEN [type |-> "IndexedDB", err |-> ""]
            ELSE IF "SessionStorage" \in avail THEN [type |-> "SessionStorage", err |-> ""]
            ELSE [type |-> "Memory", err |-> ""]
      [] OTHER -> [type |-> "Memory", err |-> ""]

\* ------------------------------------------------------------------ actions
\* err is the message of the Error that the call threw, "" when it returned
NoRet == [b |-> FALSE, get |-> NotFound, all |-> <<>>, err |-> ""]

Call(i, op, sync, keyPath, value, ttl, rem, ret, posted) ==
    [inst |-> i, op |-> op, sync |-> sync, keyPath |-> keyPath, value |-> value,
     ttl |-> ttl, removeExpired |-> rem, at |-> now, ret |-> ret, posted |-> posted]

NoCall == Call(0, "none", TRUE, NoKeyPath, Undefined, NoTtl, FALSE, NoRet, <<>>)

\* an asynchronous call on IndexedDB returns after the transactions created
\* before its own have completed
CanReturn(sync) == sync \/ kind # "IndexedDB" \/ pendingTx = <<>>

\* the state after a call of instance i that left the world w
Commit(i, w, isWrite) ==
    /\ memoryCache' = [memoryCache EXCEPT ![i] = w.mc]
    /\ webStorage' = [webStorage EXCEPT ![StorageOf(i)] = w.ws]
    /\ idb' = w.idb
    /\ pendingTx' = w.tx
    /\ inbox' = [j \in Instances |->
                    IF j \in Subscribers(i) THEN inbox[j] \o w.posted ELSE inbox[j]]
    /\ writes' = IF isWrite THEN writes + 1 ELSE writes
    /\ reads' = IF isWrite THEN reads ELSE reads + 1
    /\ UNCHANGED <<kind, options, live, available, baseName, now, ticks, restarts>>

Init ==
    /\ kind \in Kinds
    /\ options \in OptionChoices
    /\ live = {1}
    /\ available = Probed
    /\ baseName = [i \in Instances |-> BaseName]
    /\ memoryCache = [i \in Instances |-> <<>>]
    /\ webStorage = [i \in Instances |->
                        IF kind \in {"LocalStorage", "SessionStorage"}
                        THEN ForeignItems ELSE <<>>]
    /\ idb = <<>>
    /\ pendingTx = <<>>
    /\ inbox = [i \in Instances |-> <<>>]
    /\ now = 1
    /\ writes = 0
    /\ reads = 0
    /\ ticks = 0
    /\ restarts = 0
    /\ last = NoCall

Set(i, sync, keyPath, value, ttl) ==
    /\ writes < MaxWrites /\ CanReturn(sync)
    /\ LET r == HybridWebCache_set(World(i), sync, keyPath, value, ttl)
       IN  /\ Commit(i, r.w, TRUE)
           /\ last' = Call(i, "set", sync, keyPath, value, ttl, FALSE, NoRet, r.w.posted)

Get(i, sync, keyPath, arg) ==
    /\ reads < MaxReads /\ CanReturn(sync)
    /\ LET r == HybridWebCache_get(World(i), sync, keyPath, removeExpiredOf(arg))
       IN  /\ Commit(i, r.w, FALSE)
           /\ last' = Call(i, "get", sync, keyPath, Undefined, NoTtl, removeExpiredOf(arg),
                           [NoRet EXCEPT !.get = r.r], r.w.posted)

Has(i, sync, keyPath) ==
    /\ reads < MaxReads /\ CanReturn(sync)
    /\ LET r == HybridWebCache_has(World(i), sync, keyPath)
       IN  /\ Commit(i, r.w, FALSE)
           /\ last' = Call(i, "has", sync, keyPath, Undefined, NoTtl, FALSE,
                           [NoRet EXCEPT !.b = r.r], r.w.posted)

Unset(i, sync, keyPath) ==
    /\ writes < MaxWrites /\ CanReturn(sync)
    /\ LET r == HybridWebCache_unset(World(i), sync, keyPath)
       IN  /\ Commit(i, r.w, TRUE)
           /\ last' = Call(i, "unset", sync, keyPath, Undefined, NoTtl, FALSE,
                           [NoRet EXCEPT !.b = r.r], r.w.posted)

GetAll(i, sync, arg) ==
    /\ reads < MaxReads /\ CanReturn(sync)
    /\ LET r == HybridWebCache_getAll(World(i), sync, removeExpiredOf(arg))
       IN  /\ Commit(i, r.w, FALSE)
           /\ last' = Call(i, "getAll", sync, NoKeyPath, Undefined, NoTtl,
                           removeExpiredOf(arg), [NoRet EXCEPT !.all = r.r], r.w.posted)

GetJson(i, sync, arg) ==
    /\ reads < MaxReads /\ CanReturn(sync)
    /\ LET r == HybridWebCache_getJson(World(i), sync, removeExpiredOf(arg))
       IN  /\ Commit(i, r.w, FALSE)
           /\ last' = Call(i, "getJson", sync, NoKeyPath, Undefined, NoTtl,
                           removeExpiredOf(arg), [NoRet EXCEPT !.all = r.r], r.w.posted)

\* unset() and unsetSync() as the call that follows the last set or unset
Clear(i, sync) ==
    /\ writes <= MaxWrites /\ CanReturn(sync)
    /\ LET r == HybridWebCache_unset(World(i), sync, NoKeyPath)
       IN  /\ Commit(i, r.w, TRUE)
           /\ last' = Call(i, "unset", sync, NoKeyPath, Undefined, NoTtl, FALSE,
                           [NoRet EXCEPT !.b = r.r], r.w.posted)

\* the objects given to resetWith, as their entries: {}, { k: { a: 1, b: 2 } },
\* { k: 1, u: null }
ResetInputs ==
    {<<>>,
     <<[key |-> <<"k">>, value |-> ObjAB]>>,
     <<[key |-> <<"k">>, value |-> Num(1)], [key |-> <<"u">>, value |-> Null]>>}

\* the object of the entries
ObjectOf(keyValues) ==
    Obj(IF keyValues = <<>> THEN EmptyMap
        ELSE [k \in {keyValues[n].key : n \in 1..Len(keyValues)} |->
                 (CHOOSE e \in {keyValues[n] : n \in 1..Len(keyValues)} : e.key = k).value])

ResetWith(i, sync, keyValues, ttl) ==
    /\ writes <= MaxWrites /\ CanReturn(sync)
    /\ LET r == HybridWebCache_resetWith(World(i), sync, keyValues, ttl)
       IN  /\ Commit(i, r.w, TRUE)
           /\ last' = Call(i, "resetWith", sync, NoKeyPath, ObjectOf(keyValues), ttl, FALSE,
                           NoRet, r.w.posted)

\* set, get, has and their Sync forms called without a key path: the call
\* throws (the asynchronous form rejects) before it reaches this.storageBase
CallWithoutKeyPath(i, op, sync, keyPath) ==
    /\ IF op = "set" THEN writes < MaxWrites ELSE reads < MaxReads
    /\ keyPath.kind \in {"undefined", "null"}
    /\ LET err == IF KeyPathError(keyPath) # "" THEN KeyPathError(keyPath)
                  ELSE getKeyError(keyPath)
       IN  /\ Commit(i, World(i), op = "set")
           /\ last' = Call(i, op, sync, keyPath, Undefined, NoTtl, FALSE,
                           [NoRet EXCEPT !.err = err], <<>>)

\* HybridWebCache.init: IndexedDBStrategy.init loads the Map with getAll, the
\* other strategies resolve at once
InitCache(i) ==
    /\ reads < MaxReads /\ CanReturn(FALSE)
    /\ LET w == IF kind = "IndexedDB" THEN IndexedDBStrategy_getAll(World(i)).w
                ELSE World(i)
       IN  /\ Commit(i, w, FALSE)
           /\ last' = Call(i, "init", FALSE, NoKeyPath, Undefined, NoTtl, FALSE, NoRet, <<>>)

\* the page is loaded again: instance i is constructed anew over what the
\* browser kept.  LocalStorageStrategy and SessionStorageStrategy load their
\* Map in the constructor; the others start with an empty Map.
Restart(i) ==
    /\ restarts < MaxRestarts
    /\ pendingTx = <<>>
    /\ restarts' = restarts + 1
    /\ memoryCache' = [memoryCache EXCEPT ![i] =
                          IF kind \in {"LocalStorage", "SessionStorage"}
                          THEN loadMemoryCache(webStorage[StorageOf(i)])
                          ELSE <<>>]
    /\ inbox' = [inbox EXCEPT ![i] = <<>>]
    /\ last' = NoCall
    /\ UNCHANGED <<kind, options, live, available, baseName, webStorage, idb, pendingTx, now, writes, reads,
                   ticks>>

\* the oldest transaction left behind by a synchronous call completes
TxComplete ==
    /\ pendingTx # <<>>
    /\ Head(pendingTx).op \in {"put", "delete", "clear"}
    /\ idb' = ApplyTx(idb, Head(pendingTx))
    /\ pendingTx' = Tail(pendingTx)
    /\ UNCHANGED <<kind, options, live, available, baseName, memoryCache, webStorage, inbox, now, writes,
                   reads, ticks, restarts, last>>

Tick(d) ==
    /\ ticks < MaxTicks
    /\ now' = now + d
    /\ ticks' = ticks + 1
    /\ UNCHANGED <<kind, options, live, available, baseName, memoryCache, webStorage, idb, pendingTx,
                   inbox, writes, reads, restarts, last>>

Next ==
    \/ \E i \in live, sync \in Forms, in \in SetInputs : Set(i, sync, in[1], in[2], in[3])
    \/ \E i \in live, sync \in Forms, keyPath \in Paths, arg \in RemoveArgs :
          Get(i, sync, keyPath, arg)
    \/ \E i \in live, sync \in Forms, keyPath \in Paths : Has(i, sync, keyPath)
    \/ \E i \in live, sync \in Forms, keyPath \in Paths \cup {NoKeyPath} :
          Unset(i, sync, keyPath)
    \/ \E i \in live, sync \in Forms, arg \in RemoveArgs : GetAll(i, sync, arg)
    \/ \E i \in live, sync \in Forms, arg \in RemoveArgs : GetJson(i, sync, arg)
    \/ \E i \in live : InitCache(i)
    \/ \E i \in live : Restart(i)
    \/ TxComplete
    \/ \E d \in TickSteps : Tick(d)

Spec == Init /\ [][Next]_vars

\* the calls of set, and the calls of set, get and has without a key path
NextKeyPath ==
    \/ \E i \in live, sync \in Forms, in \in SetInputs : Set(i, sync, in[1], in[2], in[3])
    \/ \E i \in live, sync \in Forms, op \in {"set", "get", "has"},
          keyPath \in {NoKeyPath, NullKeyPath} : CallWithoutKeyPath(i, op, sync, keyPath)
    \/ \E i \in live : Restart(i)
    \/ TxComplete

SpecKeyPath == Init /\ [][NextKeyPath]_vars

\* the calls of set, each of which unset() may follow, twice in a row
NextClear ==
    \/ \E i \in live, sync \in Forms, in \in SetInputs : Set(i, sync, in[1], in[2], in[3])
    \/ \E i \in live, sync \in Forms : Clear(i, sync)
    \/ \E i \in live : Restart(i)
    \/ TxComplete

SpecClear == Init /\ [][NextClear]_vars

\* the calls of set and the resetWith that may follow them
NextReset ==
    \/ \E i \in live, sync \in Forms, in \in SetInputs : Set(i, sync, in[1], in[2], in[3])
    \/ \E i \in live, sync \in Forms, keyValues \in ResetInputs,
          ttl \in {NoTtl, Ttl1, TtlZero} : ResetWith(i, sync, keyValues, ttl)
    \/ \E i \in live : Restart(i)
    \/ TxComplete

SpecReset == Init /\ [][NextReset]_vars

\* two instances of one store, each in its own tab, on the backends that
\* have a BroadcastChannel
InitSync ==
    /\ kind \in {"LocalStorage", "IndexedDB"}
    /\ options \in OptionChoices
    /\ live = Instances
    /\ available = Probed
    /\ baseName = [i \in Instances |-> BaseName]
    /\ memoryCache = [i \in Instances |-> <<>>]
    /\ webStorage = [i \in Instances |-> IF kind = "LocalStorage" THEN ForeignItems ELSE <<>>]
    /\ idb = <<>>
    /\ pendingTx = <<>>
    /\ inbox = [i \in Instances |-> <<>>]
    /\ now = 1
    /\ writes = 0
    /\ reads = 0
    /\ ticks = 0
    /\ restarts = 0
    /\ last = NoCall

DeliverEchoing(i) ==
    /\ inbox[i] # <<>>
    /\ memoryCache' = [memoryCache EXCEPT ![i] = handleSyncEvent(@, Head(inbox[i]))]
    /\ inbox' = [j \in Instances |->
                    IF j = i THEN Tail(inbox[i])
                    ELSE IF j \in Subscribers(i) THEN Append(inbox[j], Head(inbox[i]))
                    ELSE inbox[j]]
    /\ UNCHANGED <<kind, options, live, available, baseName, webStorage, idb, pendingTx, now,
                   writes, reads, ticks, restarts, last>>

\* the oldest message posted to the channel of instance i is delivered
Deliver(i) ==
    /\ inbox[i] # <<>>
    /\ memoryCache' = [memoryCache EXCEPT ![i] = handleSyncEvent(@, Head(inbox[i]))]
    /\ inbox' = [inbox EXCEPT ![i] = Tail(@)]
    /\ UNCHANGED <<kind, options, live, available, baseName, webStorage, idb, pendingTx, now, writes, reads,
                   ticks, restarts, last>>

NextSync ==
    \/ \E i \in live, sync \in Forms, in \in SetInputs : Set(i, sync, in[1], in[2], in[3])
    \/ \E i \in live, sync \in Forms, keyPath \in Paths \cup {NoKeyPath} :
          Unset(i, sync, keyPath)
    \/ \E i \in live : Deliver(i)
    \/ TxComplete

SpecSync == InitSync /\ [][NextSync]_vars

\* two instances of one store name on the backends without a BroadcastChannel:
\* each has its own Map, and each tab its own sessionStorage
InitIsolated ==
    /\ kind \in {"SessionStorage", "Memory"}
    /\ options \in OptionChoices
    /\ live = Instances
    /\ available = Probed
    /\ baseName = [i \in Instances |-> BaseName]
    /\ memoryCache = [i \in Instances |-> <<>>]
    /\ webStorage = [i \in Instances |->
                        IF kind = "SessionStorage" THEN ForeignItems ELSE <<>>]
    /\ idb = <<>>
    /\ pendingTx = <<>>
    /\ inbox = [i \in Instances |-> <<>>]
    /\ now = 1
    /\ writes = 0
    /\ reads = 0
    /\ ticks = 0
    /\ restarts = 0
    /\ last = NoCall

NextIsolated ==
    \/ \E i \in live, sync \in Forms, in \in SetInputs : Set(i, sync, in[1], in[2], in[3])
    \/ \E i \in live, sync \in Forms, keyPath \in Paths \cup {NoKeyPath} :
          Unset(i, sync, keyPath)
    \/ \E i \in live, sync \in Forms : Clear(i, sync)

SpecIsolated == InitIsolated /\ [][NextIsolated]_vars

\* ---- asynchronous calls of one IndexedDB instance that the caller does not
\* await: the call queues its transaction and goes on when that completes.
\* set(keyPath, value, ttl): storageBase.get answers from the Map, or by a
\* readonly transaction; IndexedDBStrategy.set then puts the record and writes
\* the Map and posts after its transaction.
\* _set(obj, keyPath, value) where obj is data.value of the entry that the Map
\* holds under key: lodash changes that object itself, so the Map shows the
\* new value, with the expiresAt it had, before anything is stored
setInPlace(mc, key, keyPath, value) ==
    IF MapHas(mc, key) /\ isObject(MapGet(mc, key).value)
    THEN MapSet(mc, key, Data(lodashSet(MapGet(mc, key).value, keyPath, value),
                              MapGet(mc, key).expiresAt))
    ELSE mc

\* set is called and not awaited.  No write follows it (writes < MaxWrites
\* with MaxWrites = 2, and a key is in the Map only after a write), so the
\* object it has changed is not changed again before its put completes.
SetIssue(i, keyPath, value, ttl) ==
    /\ writes < MaxWrites
    /\ LET key == getKey(keyPath)
           hit == MapHas(memoryCache[i], key)
           obj == IF hit THEN MapGet(memoryCache[i], key).value ELSE Obj(EmptyMap)
           t == IF hit
                THEN Tx("putThen", key, prepareDataSet(lodashSet(obj, keyPath, value), ttl))
                ELSE Tx("getThenSet", key, [keyPath |-> keyPath, value |-> value, ttl |-> ttl])
       IN  /\ Commit(i, [World(i) EXCEPT !.mc = setInPlace(@, key, keyPath, value),
                                         !.tx = Append(@, t)], TRUE)
           /\ last' = Call(i, "set", FALSE, keyPath, value, ttl, FALSE, NoRet, <<>>)

\* getAll() and init(): the cursor of IndexedDBStrategy.getAll is queued
GetAllIssue(i) ==
    /\ reads < MaxReads
    /\ Commit(i, [World(i) EXCEPT !.tx = Append(@, Tx("readAll", <<>>, NoData))], FALSE)
    /\ last' = Call(i, "getAll", FALSE, NoKeyPath, Undefined, NoTtl, FALSE, NoRet, <<>>)

\* the transaction of an asynchronous call completes and the call goes on
AsyncComplete(i) ==
    /\ pendingTx # <<>>
    /\ LET t == Head(pendingTx)
           stored == MapGet(idb, t.key)
           obj == IF MapHas(idb, t.key) THEN stored.value ELSE Obj(EmptyMap)
       IN  /\ t.op \in {"readAll", "getThenSet", "putThen"}
           /\ idb' = ApplyTx(idb, t)
           /\ memoryCache' =
                  [memoryCache EXCEPT ![i] =
                      CASE t.op = "readAll" -> idb
                        [] t.op = "putThen" -> MapSet(@, t.key, t.data)
                        [] OTHER -> IF MapHas(idb, t.key)
                                    THEN setInPlace(MapSet(@, t.key, stored), t.key,
                                                    t.data.keyPath, t.data.value)
                                    ELSE @]
           /\ pendingTx' =
                  IF t.op = "getThenSet"
                  THEN Append(Tail(pendingTx),
                              Tx("putThen", t.key,
                                 prepareDataSet(lodashSet(obj, t.data.keyPath, t.data.value),
                                                t.data.ttl)))
                  ELSE Tail(pendingTx)
           /\ inbox' = [j \in Instances |->
                           IF j \in Subscribers(i) /\ t.op = "putThen"
                           THEN Append(inbox[j], Msg("sync", Key(t.key), t.data))
                           ELSE inbox[j]]
    /\ UNCHANGED <<kind, options, live, available, baseName, webStorage, now, writes, reads, ticks,
                   restarts, last>>

InitAsync == Init /\ kind = "IndexedDB"

NextAsync ==
    \/ \E i \in live, in \in SetInputs : Set(i, TRUE, in[1], in[2], in[3])
    \/ \E i \in live, keyPath \in Paths \cup {NoKeyPath} : Unset(i, TRUE, keyPath)
    \/ \E i \in live, in \in SetInputs : SetIssue(i, in[1], in[2], in[3])
    \/ \E i \in live : GetAllIssue(i)
    \/ \E i \in live : AsyncComplete(i)
    \/ \E i \in live : Restart(i)
    \/ TxComplete

SpecAsync == InitAsync /\ [][NextAsync]_vars

\* ---- construction: new HybridWebCache(baseName, { storage, ttl, removeExpired })
\* in a browser in which some engines are not available
InitFactory ==
    /\ kind = "none"
    /\ options \in {[ttl |-> o.ttl, removeExpired |-> o.removeExpired, storage |-> type] :
                        o \in OptionChoices, type \in StorageEngines}
    /\ live = {}
    /\ available \in SUBSET Probed
    /\ baseName = [i \in Instances |-> BaseName]
    /\ memoryCache = [i \in Instances |-> <<>>]
    /\ webStorage = [i \in Instances |-> ForeignItems]
    /\ idb = <<>>
    /\ pendingTx = <<>>
    /\ inbox = [i \in Instances |-> <<>>]
    /\ now = 1
    /\ writes = 0
    /\ reads = 0
    /\ ticks = 0
    /\ restarts = 0
    /\ last = NoCall

\* the constructor: determineStorageEngine, then options.storage becomes the
\* type of the strategy.  When createStorage throws no instance is made.
Construct(i) ==
    /\ live = {}
    /\ LET made == createStorage(options.storage, available)
           ret == [NoRet EXCEPT !.err = made.err]
       IN  /\ last' = Call(i, "new", TRUE, NoKeyPath, Num(EngineNumber(options.storage)),
                           NoTtl, FALSE, ret, <<>>)
           /\ IF made.err = ""
              THEN /\ kind' = made.type
                   /\ options' = [options EXCEPT !.storage = made.type]
                   /\ live' = {i}
              ELSE UNCHANGED <<kind, options, live>>
    /\ UNCHANGED <<available, baseName, memoryCache, webStorage, idb, pendingTx, inbox, now,
                   writes, reads, ticks, restarts>>

NextFactory ==
    \/ \E i \in Instances : Construct(i)
    \/ \E i \in live, in \in SetInputs : Set(i, TRUE, in[1], in[2], in[3])

SpecFactory == InitFactory /\ [][NextFactory]_vars

\* ---- a transaction that fails
\* the asynchronous set of HybridWebCache on IndexedDB when the promise of
\* execute is rejected (request.onerror or transaction.onabort): what ran is
\* storageBase.get, _set on the object it returned, and the put that failed;
\* memoryCache.set and postMessage of IndexedDBStrategy.set did not run
HybridWebCache_setRejected(W, keyPath, value) ==
    LET key == getKey(keyPath)
        g == IndexedDBStrategy_get(W, key)
    IN  Ret([g.w EXCEPT !.mc = setInPlace(@, key, keyPath, value)], "Transaction aborted")

SetRejected(i, keyPath, value, ttl) ==
    /\ kind = "IndexedDB" /\ writes < MaxWrites /\ CanReturn(FALSE)
    /\ LET r == HybridWebCache_setRejected(World(i), keyPath, value)
       IN  /\ Commit(i, r.w, TRUE)
           /\ last' = Call(i, "set", FALSE, keyPath, value, ttl, FALSE,
                           [NoRet EXCEPT !.err = r.r], r.w.posted)

NextFailure ==
    \/ \E i \in live, sync \in Forms, in \in SetInputs : Set(i, sync, in[1], in[2], in[3])
    \/ \E i \in live, in \in SetInputs : SetRejected(i, in[1], in[2], in[3])
    \/ \E i \in live : Restart(i)
    \/ TxComplete

SpecFailure == InitAsync /\ [][NextFailure]_vars

\* ---- the BroadcastChannel between stores of several names
StoreNames == {<<"h">>, <<" ", "h">>, <<"g">>, <<>>, DefaultName}

\* the store of instance 1 before the instances were constructed
PriorItems ==
    LocalStorageStrategy_setSync([mc |-> <<>>, ws |-> ForeignItems, idb |-> <<>>,
                                  tx |-> <<>>, posted |-> <<>>, seen |-> <<>>],
                                 <<"u">>, Data(Num(3), 0)).w.ws

\* instance 1 is of a store whose keys in localStorage have the prefix
\* prefixKey, or of an IndexedDB database of any name; instance 2 is of a store
\* of any name, constructed over the same localStorage, and makes no call
InitBus ==
    /\ kind \in {"LocalStorage", "IndexedDB"}
    /\ options \in OptionChoices
    /\ live = Instances
    /\ available = Probed
    /\ baseName \in {n \in [Instances -> StoreNames] :
                        kind = "LocalStorage" => trim(n[1]) = trim(BaseName)}
    /\ webStorage \in {[i \in Instances |-> IF kind = "LocalStorage" THEN ws ELSE <<>>] :
                          ws \in {ForeignItems, PriorItems}}
    /\ memoryCache = [i \in Instances |->
                        IF kind = "LocalStorage" /\ trim(baseName[i]) = trim(BaseName)
                        THEN loadMemoryCache(webStorage[1]) ELSE <<>>]
    /\ idb = <<>>
    /\ pendingTx = <<>>
    /\ inbox = [i \in Instances |-> <<>>]
    /\ now = 1
    /\ writes = 0
    /\ reads = 0
    /\ ticks = 0
    /\ restarts = 0
    /\ last = NoCall

\* a message whose action is none of sync, unset and clear arrives on the
\* channel of instance i
OtherPost(i) ==
    /\ Len(inbox[i]) < 2
    /\ inbox' = [inbox EXCEPT ![i] = Append(@, Msg("other", NoKey, NoData))]
    /\ UNCHANGED <<kind, options, live, available, baseName, memoryCache, webStorage, idb,
                   pendingTx, now, writes, reads, ticks, restarts, last>>

NextBus ==
    \/ \E sync \in Forms, in \in SetInputs : Set(1, sync, in[1], in[2], in[3])
    \/ \E sync \in Forms, keyPath \in Paths \cup {NoKeyPath} : Unset(1, sync, keyPath)
    \/ Deliver(2)
    \/ OtherPost(2)
    \/ TxComplete

SpecBus == InitBus /\ [][NextBus]_vars

\* --------------------------------------------------------------- properties
\* the instance of the last call and the world it sees
LastWorld == World(IF last.inst \in Instances THEN last.inst ELSE 1)

\* the forms in which a call can be made, and return, in this state
FormsNow == {f \in Forms : CanReturn(f)}

\* the step is a call of instance i: last' describes it
CallOf(i) == writes' + reads' > writes + reads /\ last'.inst = i

\* the milliseconds of the ttl that the last call of set used
LastTtlMs ==
    convertTTLToMilliseconds(IF last.ttl.kind = "undefined" THEN options.ttl ELSE last.ttl)

\* the entry written by the last call of set has not expired
LastSetNotExpired == LastTtlMs = 0 \/ now < last.at + LastTtlMs

\* the root key of a key path as a key path, and the paths below a root
RootOf(keyPath) == Str(getKey(keyPath))
IsNested(keyPath) == Truthy(keyPath) /\ getKey(keyPath) # toString(keyPath)

\* C1: after set(path, v, ttl) or setSync, while the entry has not expired,
\* get(path) and getSync(path), with either removeExpired, return a found
\* result whose value is v and whose isExpired is false; this holds after a
\* second set as after the first.
C1_RoundTrip ==
    (last.op = "set" /\ LastSetNotExpired) =>
        \A f \in FormsNow, rem \in BOOLEAN :
            LET r == HybridWebCache_get(LastWorld, f, last.keyPath, rem).r
            IN  Found(r) /\ r.value = last.value /\ ~r.isExpired

\* a second set has been made, an hour has passed and the entry is alive
C1_Witness ==
    /\ last.op = "set" /\ writes = 2 /\ now > last.at /\ LastSetNotExpired
    /\ Found(HybridWebCache_get(LastWorld, last.sync, last.keyPath, TRUE).r)

\* C2: after unset(path) or unsetSync, get(path) and getSync(path) on the
\* same instance return not found.
C2_UnsetThenGetNotFound ==
    (last.op = "unset" /\ last.keyPath.kind # "undefined") =>
        \A f \in FormsNow :
            ~Found(HybridWebCache_get(LastWorld, f, last.keyPath, FALSE).r)

\* the fields of the value under the root key, as get(root, false) in form f
\* reads them; no fields when the root is not found
RootValue(W, f, keyPath) == HybridWebCache_get(W, f, RootOf(keyPath), FALSE).r.value
FieldsOf(v) == IF isObject(v) THEN DOMAIN v.f ELSE {}

\* the field of the root value that a nested key path of two segments names
FieldOf(keyPath, doc) == castPath(keyPath, doc)[2]

\* C3: set(path, v) and setSync at a nested path leave every other field of
\* the root value, as read before the call in the form of the call, readable
\* with the same value.
C3_NestedSetFrame ==
    [][\A i \in Instances :
          (CallOf(i) /\ last'.op = "set" /\ IsNested(last'.keyPath)) =>
              LET before == RootValue(World(i), last'.sync, last'.keyPath)
                  after == RootValue(World(i)', last'.sync, last'.keyPath)
                  field == FieldOf(last'.keyPath, after)
              IN  \A x \in FieldsOf(before) \ {field} :
                      x \in FieldsOf(after) /\ after.f[x] = before.f[x]]_vars

\* a nested set was made on a document that has other fields
C3_Witness ==
    /\ last.op = "set" /\ IsNested(last.keyPath)
    /\ LET v == RootValue(LastWorld, last.sync, last.keyPath)
       IN  /\ Cardinality(FieldsOf(v)) >= 2
           /\ Prop(v, FieldOf(last.keyPath, v)) = last.value

\* the object store once the transactions created so far have completed
RECURSIVE Durable(_, _)
Durable(store, txs) ==
    IF txs = <<>> THEN store ELSE Durable(ApplyTx(store, Head(txs)), Tail(txs))

\* the places of the backend that hold an entry for the key
Places(W, key) ==
    {x \in {"map"} : MapHas(W.mc, key)}
    \cup {x \in {"storage"} : MapHas(W.ws, formattedKey(key))}
    \cup {x \in {"database"} : MapHas(Durable(W.idb, W.tx), key)}

\* the backend of the instance holds an entry for the key: in its Map, in its
\* localStorage or sessionStorage, or in the object store
EntryHeld(W, key) == Places(W, key) # {}

\* C4: unset(path) or unsetSync of one field of a root value that has other
\* fields removes nothing but that field: the root entry stays in the
\* backend, has(rootKey) is true, every other field keeps its value, and the
\* field is gone when the call returns true.
C4_NestedUnsetFrame ==
    [][\A i \in Instances :
          (CallOf(i) /\ last'.op = "unset" /\ IsNested(last'.keyPath)) =>
              LET before == RootValue(World(i), last'.sync, last'.keyPath)
                  after == RootValue(World(i)', last'.sync, last'.keyPath)
                  field == FieldOf(last'.keyPath, before)
              IN  (field \in FieldsOf(before) /\ FieldsOf(before) # {field}) =>
                      /\ Places(World(i), getKey(last'.keyPath))
                             \subseteq Places(World(i)', getKey(last'.keyPath))
                      /\ HybridWebCache_has(World(i)', last'.sync,
                                            RootOf(last'.keyPath)).r
                      /\ last'.ret.b => field \notin FieldsOf(after)
                      /\ \A x \in FieldsOf(before) \ {field} :
                             x \in FieldsOf(after) /\ after.f[x] = before.f[x]]_vars

\* a field was unset and the root value has a field left
C4_Witness ==
    /\ last.op = "unset" /\ IsNested(last.keyPath) /\ last.ret.b
    /\ LET v == RootValue(LastWorld, last.sync, last.keyPath)
       IN  FieldsOf(v) # {} /\ FieldOf(last.keyPath, v) \notin FieldsOf(v)

\* C5: once a nested unset has removed the last field of the object stored
\* under a root key, the backend holds no entry for the root key and
\* has(rootKey) is false.
C5_EmptiedEntryRemoved ==
    (last.op = "unset" /\ IsNested(last.keyPath) /\ last.ret.b) =>
        LET v == RootValue(LastWorld, last.sync, last.keyPath)
        IN  (v.t = "object" /\ FieldsOf(v) = {}) =>
                /\ ~EntryHeld(LastWorld, getKey(last.keyPath))
                /\ ~HybridWebCache_has(LastWorld, last.sync, RootOf(last.keyPath)).r

\* C6: unset of the path of an index that holds an element of a stored array
\* leaves the length of the array unchanged and null at the index: a
\* following get of the array gives the other elements as they were.
C6_ArrayUnsetNull ==
    [][\A i \in Instances :
          (CallOf(i) /\ last'.op = "unset" /\ IsNested(last'.keyPath)) =>
              LET before == RootValue(World(i), last'.sync, last'.keyPath)
                  after == RootValue(World(i)', last'.sync, last'.keyPath)
                  field == FieldOf(last'.keyPath, before)
              IN  (before.t = "array" /\ field \in FieldsOf(before) /\ isIndex(field)) =>
                      after = Arr([x \in FieldsOf(before) |->
                                      IF x = field THEN Null ELSE before.f[x]],
                                  before.len)]_vars

\* the expiresAt of an entry has passed
Passed(expiresAt) == expiresAt > 0 /\ expiresAt <= now

\* the entry that a call in form f of get(path) reads is stored and its
\* expiresAt has passed
ExpiredAt(W, f, keyPath) ==
    LET r == HybridWebCache_get(W, f, keyPath, FALSE).r
    IN  Found(r) /\ Passed(r.expiresAt)

\* C7: get(path, true) or getSync on an entry whose expiresAt has passed
\* returns not found; afterwards has(path) is false and get(path, false)
\* returns not found.
C7_ExpiredGetRemoves ==
    [][\A i \in Instances :
          (/\ CallOf(i) /\ last'.op = "get" /\ last'.removeExpired
           /\ ExpiredAt(World(i), last'.sync, last'.keyPath)) =>
              /\ ~Found(last'.ret.get)
              /\ \A f \in FormsNow' :
                    /\ ~HybridWebCache_has(World(i)', f, last'.keyPath).r
                    /\ ~Found(HybridWebCache_get(World(i)', f, last'.keyPath, FALSE).r)]_vars

\* an hour after the one set, with a TTL, of a nested path, get(path, true)
\* has returned not found and has left the expired root value without fields
C7_Witness ==
    /\ last.op = "get" /\ last.removeExpired /\ ~Found(last.ret.get)
    /\ now > 1 /\ writes = 1 /\ restarts = 0 /\ IsNested(last.keyPath)
    /\ Passed(MapGet(LastWorld.mc, getKey(last.keyPath)).expiresAt)
    /\ RootValue(LastWorld, TRUE, last.keyPath) = Obj(EmptyMap)

\* C9: after get(path, true) or getSync has read an entry whose expiresAt has
\* passed, the backend holds no entry for the root key of path.
C9_ExpiredGetDeletesEntry ==
    [][\A i \in Instances :
          (/\ CallOf(i) /\ last'.op = "get" /\ last'.removeExpired
           /\ ExpiredAt(World(i), last'.sync, last'.keyPath)) =>
              ~EntryHeld(World(i)', getKey(last'.keyPath))]_vars

\* what get(path, false), getAll(false) and getJson(false) return, given the
\* entries that the strategy hands over in the form of the call
ReadsAll(i) ==
    LET W == World(i)
        d == storageBase_get(W, last'.sync, getKey(last'.keyPath)).r
        v == lodashGet(d.value, last'.keyPath)
        all == storageBase_getAll(W, last'.sync).r
    IN  /\ (last'.op = "get" /\ IsData(d) /\ v.t # "undefined") =>
               last'.ret.get = DataGet(v, d.expiresAt, Passed(d.expiresAt))
        /\ last'.op = "getAll" =>
               last'.ret.all =
                   [j \in 1..Len(all) |->
                       [key |-> all[j].key,
                        data |-> DataGet(Prop(all[j].data.value, all[j].key),
                                         all[j].data.expiresAt,
                                         Passed(all[j].data.expiresAt))]]
        /\ last'.op = "getJson" =>
               last'.ret.all =
                   [j \in 1..Len(all) |->
                       [key |-> all[j].key,
                        value |-> Prop(all[j].data.value, all[j].key)]]

\* a call of get, getAll or getJson, in either form, with removeExpired false
ReadKeeping(i) ==
    /\ CallOf(i) /\ last'.op \in {"get", "getAll", "getJson"}
    /\ ~last'.removeExpired

ExpiresAtFor(ttl, t) ==
    LET given == IF ttl.kind = "undefined" THEN options.ttl ELSE ttl
        ms == IF given.kind = "number" THEN given.n
              ELSE TtlField(given, "seconds") * 1000 + TtlField(given, "minutes") * 60000
                   + TtlField(given, "hours") * 3600000
                   + TtlField(given, "days") * 86400000
    IN  IF ms > 0 THEN t + ms ELSE 0

\* C10: set stores expiresAt 0 for a TTL of 0 and the time of the call plus
\* the milliseconds of the TTL otherwise, the default TTL of the instance
\* standing in for a missing one; an entry with expiresAt 0 is reported with
\* isExpired false and no get, getAll or getJson with removeExpired true
\* removes it.
C10_ZeroTtlNeverExpires ==
    [][\A i \in Instances :
          CallOf(i) =>
              /\ last'.op = "set" =>
                    MapGet(memoryCache'[i], getKey(last'.keyPath)).expiresAt
                        = ExpiresAtFor(last'.ttl, now)
              /\ \A k \in MapKeys(memoryCache'[i]) :
                    MapGet(memoryCache'[i], k).expiresAt = 0 =>
                        ~HybridWebCache_get(World(i)', TRUE, Str(k), FALSE).r.isExpired
              /\ (last'.op \in {"get", "getAll", "getJson"} /\ last'.removeExpired) =>
                    \A k \in MapKeys(memoryCache[i]) :
                        MapGet(memoryCache[i], k).expiresAt = 0 =>
                            /\ MapHas(memoryCache'[i], k)
                            /\ MapGet(memoryCache'[i], k) = MapGet(memoryCache[i], k)]_vars

\* the values of expiresAt that isExpired is asked about: below zero, zero,
\* and around the two times of the clock
ExpiresAtChoices == {-1, 0, 1, 2, 3600000, 3600001, 3600002}

\* C11: isExpired(expiresAt) at the time now is false for every expiresAt
\* <= 0 and otherwise true exactly when now >= expiresAt.
C11_IsExpired ==
    \A e \in ExpiresAtChoices :
        isExpired(e, now) = (IF e <= 0 THEN FALSE ELSE now >= e)

\* get(path, false) has read an entry at the instant of its expiresAt and
\* has reported it expired
C11_Witness ==
    /\ last.op = "get" /\ Found(last.ret.get)
    /\ last.ret.get.expiresAt = now /\ last.ret.get.isExpired

\* C12: set, get, has and their Sync forms called with a path that is null or
\* undefined fail with the Error 'KeyPath cannot be undefined or null.' and
\* leave the Map, the backing store and the channel as they were.
C12_InvalidKeyPath ==
    [][\A i \in Instances :
          (/\ CallOf(i) /\ last'.op \in {"set", "get", "has"}
           /\ last'.keyPath.kind \in {"undefined", "null"}) =>
              /\ last'.ret.err = "KeyPath cannot be undefined or null."
              /\ last'.posted = <<>>
              /\ UNCHANGED <<memoryCache, webStorage, idb, pendingTx, inbox>>]_vars

\* setSync(null, ...) has thrown on a store that holds an entry
C12_Witness ==
    /\ last.op = "set" /\ last.sync /\ last.keyPath.kind = "null"
    /\ last.ret.err # "" /\ LastWorld.mc # <<>>

\* the root keys of the key paths of the calls
RootKeys == {getKey(p) : p \in Paths}

\* the root keys for which the backend of the instance holds an entry
HeldKeys(W) == {k \in RootKeys : EntryHeld(W, k)}

\* a call without a key path: unset() or unsetSync()
IsClear(call) == call.op = "unset" /\ call.keyPath.kind = "undefined"

\* C13: unset() or unsetSync() on a store that holds entries returns true and
\* clears the store: afterwards getAll gives null, length is 0, has(k) is
\* false for every root key and the backend holds no entry.
C13_ClearAll ==
    [][\A i \in Instances :
          (CallOf(i) /\ IsClear(last') /\ HeldKeys(World(i)) # {}) =>
              /\ last'.ret.b
              /\ storageBase_length(World(i)') = 0
              /\ HeldKeys(World(i)') = {}
              /\ \A f \in FormsNow' :
                    /\ HybridWebCache_getAll(World(i)', f, FALSE).r = <<>>
                    /\ \A k \in RootKeys :
                          ~HybridWebCache_has(World(i)', f, Str(k)).r]_vars

\* C14: unset() or unsetSync() that follows unset() of the same instance, or
\* that is called on a store without entries, returns false, posts no message
\* and changes nothing.
C14_ClearIdempotent ==
    [][\A i \in Instances :
          (/\ CallOf(i) /\ IsClear(last')
           /\ \/ IsClear(last) /\ last.inst = i
              \/ HeldKeys(World(i)) = {}) =>
              /\ ~last'.ret.b /\ last'.ret.err = ""
              /\ last'.posted = <<>>
              /\ UNCHANGED <<memoryCache, webStorage, idb, pendingTx, inbox>>]_vars

\* on localStorage a set, unset() and unset() again have been made: the
\* third call found the Map empty, as the second left it
C14_Witness ==
    /\ IsClear(last) /\ ~last.ret.b /\ writes = 3 /\ restarts = 0
    /\ kind = "LocalStorage" /\ HeldKeys(LastWorld) # {}

\* C15: unset(path) or unsetSync returns true exactly when get(path) found a
\* value before the call; when it found none the call returns false, posts
\* no message and changes nothing.
C15_UnsetReturnsMutation ==
    [][\A i \in Instances :
          (CallOf(i) /\ last'.op = "unset" /\ ~IsClear(last')) =>
              LET held == Found(HybridWebCache_get(World(i), last'.sync,
                                                   last'.keyPath, FALSE).r)
              IN  /\ last'.ret.b = held
                  /\ ~held =>
                        /\ last'.posted = <<>>
                        /\ UNCHANGED <<memoryCache, webStorage, idb, pendingTx,
                                       inbox>>]_vars

\* C16: after resetWith(m, ttl) or resetWithSync the root keys that getAll
\* gives are the keys of m, get(k) gives m[k] with the expiry of the one ttl
\* (the default of the instance when omitted), and the backend holds entries
\* for the keys of m and for no other root key.
C16_ResetWith ==
    [][\A i \in Instances :
          (CallOf(i) /\ last'.op = "resetWith") =>
              LET m == last'.value.f
                  expiresAt == ExpiresAtFor(last'.ttl, now)
              IN  /\ HeldKeys(World(i)') = DOMAIN m
                  /\ \A f \in FormsNow' :
                        /\ MapKeys(HybridWebCache_getAll(World(i)', f, FALSE).r) = DOMAIN m
                        /\ \A k \in DOMAIN m :
                              LET g == HybridWebCache_get(World(i)', f, Str(k), FALSE).r
                              IN  g.value = m[k] /\ g.expiresAt = expiresAt]_vars

\* the entries that the backend of the instance holds for the key: in its
\* Map, in its localStorage or sessionStorage, in the object store
HeldData(W, key) ==
    {MapGet(W.mc, key) : x \in {x \in {"map"} : MapHas(W.mc, key)}}
    \cup {MapGet(W.ws, formattedKey(key)) :
             x \in {x \in {"storage"} : MapHas(W.ws, formattedKey(key))}}
    \cup {MapGet(Durable(W.idb, W.tx), key) :
             x \in {x \in {"database"} : MapHas(Durable(W.idb, W.tx), key)}}

\* the elements of a sequence
Range(seq) == {seq[n] : n \in 1..Len(seq)}

\* C17: getAll(true) and getJson(true), in either form, return the root keys
\* whose entries have not expired, with their values; afterwards the backend
\* holds no expired entry and holds every other entry as it was.
C17_GetAllRemovesExpired ==
    [][\A i \in Instances :
          (/\ CallOf(i) /\ last'.op \in {"getAll", "getJson"}
           /\ last'.removeExpired) =>
              LET all == Range(storageBase_getAll(World(i), last'.sync).r)
                  kept == {e \in all : ~Passed(e.data.expiresAt)}
              IN  /\ last'.op = "getAll" =>
                         Range(last'.ret.all) =
                             {[key |-> e.key,
                               data |-> DataGet(Prop(e.data.value, e.key),
                                                e.data.expiresAt, FALSE)] : e \in kept}
                  /\ last'.op = "getJson" =>
                         Range(last'.ret.all) =
                             {[key |-> e.key, value |-> Prop(e.data.value, e.key)] :
                                 e \in kept}
                  /\ \A k \in RootKeys :
                        /\ \A d \in HeldData(World(i)', k) : ~Passed(d.expiresAt)
                        /\ \A d \in HeldData(World(i), k) :
                              ~Passed(d.expiresAt) => d \in HeldData(World(i)', k)]_vars

\* C18: after set(path, null) or setSync, on a root key or on a nested path,
\* get(path) finds the value null, and has(path) and hasSync(path) are false.
C18_NullIsAbsentForHas ==
    [][\A i \in Instances :
          (CallOf(i) /\ last'.op = "set" /\ last'.value = Null) =>
              \A f \in FormsNow' :
                  LET g == HybridWebCache_get(World(i)', f, last'.keyPath, FALSE).r
                  IN  /\ Found(g) /\ g.value = Null
                      /\ ~HybridWebCache_has(World(i)', f, last'.keyPath).r]_vars

\* the entries of the backing store that the instances share, as a strategy
\* loads them
StoreEntries ==
    IF kind = "IndexedDB" THEN MapFn(idb) ELSE MapFn(loadMemoryCache(webStorage[1]))

\* every posted message has been delivered and every transaction has completed
Quiescent == pendingTx = <<>> /\ \A i \in live : inbox[i] = <<>>

\* C19: when every message has been delivered and every transaction has
\* completed, the Maps of the live instances hold the same entries as each
\* other and as the backing store.
C19_Convergence ==
    Quiescent => \A i \in live : MapFn(memoryCache[i]) = StoreEntries

\* C20: once the message of set(path, v) or setSync of instance a has been
\* delivered to instance b, and no other call was made since, get(path) and
\* getSync(path) of b return v.
C20_SetObservedAfterDelivery ==
    \A a \in live : \A b \in live \ {a} :
        (last.op = "set" /\ last.inst = a /\ inbox[b] = <<>>) =>
            \A f \in FormsNow :
                LET r == HybridWebCache_get(World(b), f, last.keyPath,
                                            options.removeExpired).r
                IN  Found(r) /\ r.value = last.value

\* instance 1 has made the second write, a set on a key that instance 2 had
\* written before, and instance 2 has received both its messages
C20_Witness ==
    /\ last.op = "set" /\ last.inst = 1 /\ writes = 2 /\ inbox[2] = <<>>
    /\ inbox[1] # <<>> /\ Head(inbox[1]).action = "sync"
    /\ Head(inbox[1]).key.s = getKey(last.keyPath)
    /\ MapHas(memoryCache[2], getKey(last.keyPath))

\* what get(path, false), has(path) and getAll(false) return to an instance
\* whose world is W, for every path
ReadsOf(W) ==
    [path \in Paths |->
        [get |-> HybridWebCache_get(W, TRUE, path, FALSE).r,
         has |-> HybridWebCache_has(W, TRUE, path).r,
         all |-> HybridWebCache_getAll(W, TRUE, FALSE).r]]

\* C21: on sessionStorage and memory a set, unset or unset() of instance a
\* posts no message and leaves what get, has and getAll return to another
\* instance b as it was, whether b is in another tab or shares the
\* sessionStorage of a.
C21_NotObservedAcrossInstances ==
    [][\A a \in Instances :
          (CallOf(a) /\ last'.op \in {"set", "unset"}) =>
              /\ last'.posted = <<>>
              /\ \A i \in Instances : inbox'[i] = <<>>
              /\ \A b \in Instances \ {a} :
                    /\ ReadsOf(World(b)') = ReadsOf(World(b))
                    /\ ReadsOf([World(b)' EXCEPT !.ws = World(a)'.ws])
                           = ReadsOf([World(b) EXCEPT !.ws = World(a).ws])]_vars

\* instance 1 has cleared its store with unset() while instance 2 holds an
\* entry that it had set
C21_Witness ==
    /\ IsClear(last) /\ last.inst = 1 /\ last.ret.b /\ writes = 3
    /\ memoryCache[1] = <<>> /\ memoryCache[2] # <<>>
    /\ kind = "SessionStorage"

\* C22: after setSync(path, v), and until the next call of the instance,
\* getSync(path, false) returns v, whichever asynchronous calls issued before
\* complete in the meantime.
C22_ReadYourWritesSync ==
    (last.op = "set" /\ last.sync) =>
        LET r == HybridWebCache_get(LastWorld, TRUE, last.keyPath, FALSE).r
        IN  Found(r) /\ r.value = last.value

\* C23: when the transactions of the writes have completed and the last
\* write under a root key was a set, by set or setSync, the Map and the
\* object store hold the entry of that set under the key: its value at the
\* path of the set.
C23_WritesInCallOrder ==
    (last.op = "set" /\ pendingTx = <<>>) =>
        LET key == getKey(last.keyPath)
        IN  /\ MapHas(LastWorld.mc, key) /\ MapHas(idb, key)
            /\ lodashGet(MapGet(LastWorld.mc, key).value, last.keyPath) = last.value
            /\ lodashGet(MapGet(idb, key).value, last.keyPath) = last.value

\* the items of a localStorage or sessionStorage whose key does not start
\* with the prefix of the store
ForeignOf(ws) == SelectSeq(ws, LAMBDA e : ~startsWith(e.key, prefixKey))

\* C24: unset and unsetSync, with or without a path, on localStorage and
\* sessionStorage leave every item whose key does not start with the prefix
\* of the store as it was.
C24_ForeignKeysKept ==
    [][\A i \in Instances :
          (CallOf(i) /\ last'.op = "unset"
           /\ kind \in {"LocalStorage", "SessionStorage"}) =>
              ForeignOf(World(i)'.ws) = ForeignOf(World(i).ws)]_vars

\* the Map, the storage and the object store, its pending transactions
\* completed, that a call leaves, with its result
Outcome(c) ==
    [r |-> c.r, mc |-> MapFn(c.w.mc), ws |-> c.w.ws,
     idb |-> MapFn(Durable(c.w.idb, c.w.tx))]

\* init() has loaded the Map of the instance and no transaction is pending
Initialized(i) ==
    pendingTx = <<>> /\ (kind = "IndexedDB" => MapFn(memoryCache[i]) = MapFn(idb))

\* C25: on an initialized instance each call made in its asynchronous form
\* and run to completion returns what its synchronous form returns and leaves
\* the same Map and the same backing store; so do unset(key) and
\* unsetSync(key) of the strategy, for the keys in the Map and the others.
C25_AsyncAgreesWithSync ==
    \A i \in live :
        Initialized(i) =>
            LET W == World(i)
            IN  /\ \A p \in Paths :
                      /\ Outcome(HybridWebCache_get(W, FALSE, p, FALSE))
                             = Outcome(HybridWebCache_get(W, TRUE, p, FALSE))
                      /\ Outcome(HybridWebCache_has(W, FALSE, p))
                             = Outcome(HybridWebCache_has(W, TRUE, p))
                      /\ Outcome(HybridWebCache_unset(W, FALSE, p))
                             = Outcome(HybridWebCache_unset(W, TRUE, p))
                /\ \A in \in SetInputs :
                      Outcome(HybridWebCache_set(W, FALSE, in[1], in[2], in[3]))
                          = Outcome(HybridWebCache_set(W, TRUE, in[1], in[2], in[3]))
                /\ Outcome(HybridWebCache_unset(W, FALSE, NoKeyPath))
                       = Outcome(HybridWebCache_unset(W, TRUE, NoKeyPath))
                /\ \A k \in RootKeys :
                      Outcome(storageBase_unset(W, FALSE, Key(k)))
                          = Outcome(storageBase_unset(W, TRUE, Key(k)))

\* the step is the call of the constructor
Constructs == last.op = "none" /\ last'.op = "new"

\* C26: the constructor called with storage LocalStorage, IndexedDB or
\* SessionStorage while that engine is not available throws the Error
\* '<engine> is not available', and no strategy of another engine is made.
C26_UnavailableThrows ==
    [][(Constructs /\ options.storage \in Probed \ available) =>
          /\ last'.ret.err =
                (CASE options.storage = "LocalStorage" -> "LocalStorage is not available"
                   [] options.storage = "IndexedDB" -> "IndexedDB is not available"
                   [] OTHER -> "SessionStorage is not available")
          /\ live' = {} /\ kind' = "none"
          /\ UNCHANGED <<options, memoryCache, webStorage, idb>>]_vars

\* IndexedDB was asked for and is not available while localStorage is: the
\* constructor has thrown
C26_Witness ==
    /\ last.op = "new" /\ last.value = Num(2) /\ last.ret.err # ""
    /\ "LocalStorage" \in available /\ live = {}

\* C27: the constructor called with storage Auto does not throw and makes
\* the strategy of the first available engine in the order LocalStorage,
\* IndexedDB, SessionStorage, Memory; storageType and options.storage are
\* then that engine, never Auto.
C27_AutoPicksFirstAvailable ==
    [][(Constructs /\ options.storage = "Auto") =>
          /\ last'.ret.err = "" /\ live' # {}
          /\ kind' = (IF "LocalStorage" \in available THEN "LocalStorage"
                      ELSE IF "IndexedDB" \in available THEN "IndexedDB"
                      ELSE IF "SessionStorage" \in available THEN "SessionStorage"
                      ELSE "Memory")
          /\ options'.storage = kind' /\ kind' # "Auto"]_vars

\* Auto was asked for where localStorage and IndexedDB are not available, and
\* the constructor has made the sessionStorage strategy
C27_Witness ==
    /\ last.op = "new" /\ last.value = Num(0) /\ last.ret.err = ""
    /\ available = {"SessionStorage"} /\ live # {}
    /\ kind = "SessionStorage" /\ options.storage = "SessionStorage"

\* a message is delivered to instance i
Delivered(i) ==
    /\ inbox[i] # <<>> /\ inbox'[i] = Tail(inbox[i])
    /\ UNCHANGED <<last, writes, reads, restarts>>

\* the Maps before and after agree on every key but key
SameBut(before, after, key) ==
    \A k \in (MapKeys(before) \cup MapKeys(after)) \ {key} :
        /\ MapHas(before, k) /\ MapHas(after, k)
        /\ MapGet(after, k) = MapGet(before, k)

\* C28: when a message posted by the strategies is delivered to an instance,
\* a 'sync' sets the carried key of its Map to the carried entry and changes
\* no other key, an 'unset' removes the carried key and changes no other key,
\* a 'clear' empties the Map, and a message of any other action leaves the
\* Map as it was.
C28_NotificationProtocol ==
    [][\A i \in Instances :
          Delivered(i) =>
             LET m == Head(inbox[i])
                 before == memoryCache[i]
                 after == memoryCache'[i]
             IN  CASE m.action = "sync" ->
                        /\ MapHas(after, m.key.s) /\ MapGet(after, m.key.s) = m.value
                        /\ SameBut(before, after, m.key.s)
                   [] m.action = "unset" ->
                        /\ ~MapHas(after, m.key.s)
                        /\ SameBut(before, after, m.key.s)
                   [] m.action = "clear" -> after = <<>>
                   [] OTHER -> after = before]_vars

\* instance 2 held the keys u and k, the 'unset' of k that instance 1 posted
\* has been delivered to it, and it holds u and no longer k
C28_Witness ==
    /\ kind = "LocalStorage" /\ 2 \in Subscribers(1)
    /\ last.inst = 1 /\ last.op = "unset" /\ writes = 2
    /\ last.posted = <<Msg("unset", Key(<<"k">>), NoData)>>
    /\ inbox[2] = <<>>
    /\ MapHas(memoryCache[2], <<"u">>) /\ ~MapHas(memoryCache[2], <<"k">>)

\* the name under which the engine keeps the store of instance i: the name
\* without the spaces around it, and in IndexedDB the default name for an
\* empty one
StoreOf(i) ==
    IF kind = "IndexedDB" /\ trim(baseName[i]) = <<>> THEN DefaultName
    ELSE trim(baseName[i])

\* C29 as stated: while the store name of instance 2 differs from the store
\* name of instance 1, nothing that instance 1 publishes changes the Map of
\* instance 2 (instance 2 makes no call of its own here).
C29_ConfinedToStoreName ==
    [][baseName[1] # baseName[2] => memoryCache'[2] = memoryCache[2]]_vars

\* C29: while the store of instance 2 differs from the store of instance 1,
\* the names taken without the spaces around them and, in IndexedDB, an empty
\* name taken as the default name, nothing that instance 1 publishes reaches
\* instance 2 or changes its Map, on LocalStorage and on IndexedDB.
C29_ConfinedToStore ==
    [][StoreOf(1) # StoreOf(2) =>
          /\ memoryCache'[2] = memoryCache[2]
          /\ \A n \in 1..Len(inbox'[2]) : inbox'[2][n].action = "other"]_vars

\* instance 1 of store h has set k and published it, and instance 2 of store
\* g has nothing to handle and holds nothing
C29_Witness ==
    /\ baseName[1] = <<"h">> /\ baseName[2] = <<"g">>
    /\ last.inst = 1 /\ last.op = "set" /\ last.posted # <<>>
    /\ last.posted[1].action = "sync" /\ last.posted[1].key.s = <<"k">>
    /\ MapHas(memoryCache[1], <<"k">>)
    /\ inbox[2] = <<>> /\ memoryCache[2] = <<>>

\* what the strategy of instance i publishes and leaves when it is called
Unchanged(W, r) ==
    /\ r.w.mc = W.mc /\ r.w.ws = W.ws /\ r.w.idb = W.idb /\ r.w.tx = W.tx

PublishesAsMutates(i, sync, keys) ==
    LET W == World(i)
        cleared == storageBase_unset(W, sync, NoKey)
    IN  /\ \A key \in keys, data \in {Data(Num(1), 0), Data(Null, now + 1)} :
              storageBase_set(W, sync, key, data).w.posted = <<Msg("sync", Key(key), data)>>
        /\ \A key \in keys :
              LET r == storageBase_unset(W, sync, Key(key))
              IN  /\ (MapHas(W.mc, key) /\ ~MapHas(r.w.mc, key)) =>
                         r.w.posted = <<Msg("unset", Key(key), NoData)>>
                  /\ Unchanged(W, r) => r.w.posted = <<>>
        /\ cleared.r => cleared.w.posted = <<Msg("clear", NoKey, NoData)>>
        /\ Unchanged(W, cleared) => cleared.w.posted = <<>>

\* C30: on LocalStorage and IndexedDB, in every state, a set of the strategy
\* publishes exactly the message {sync, key, entry}, an unset with a key that
\* removes the entry of the key publishes exactly {unset, key}, an unset
\* without a key that returns true publishes exactly {clear}, and an unset
\* that changes nothing publishes nothing.
C30_OneNotificationPerMutation ==
    \A i \in live, sync \in Forms : PublishesAsMutates(i, sync, RootKeys)

\* the Map that the publishing instance held when it posted m reflects m
Reflects(m, held) ==
    CASE m.action = "sync" -> MapHas(held.mc, m.key.s) /\ MapGet(held.mc, m.key.s) = m.value
      [] m.action = "unset" -> ~MapHas(held.mc, m.key.s)
      [] m.action = "clear" -> held.mc = <<>>
      [] OTHER -> FALSE

AllReflected(w) ==
    /\ Len(w.seen) = Len(w.posted)
    /\ \A n \in 1..Len(w.posted) : Reflects(w.posted[n], w.seen[n])

\* C31: in every state, whatever set or unset an instance is asked for, each
\* message is posted when the Map of the instance already holds the change
\* (the posted entry for sync, no entry of the key for unset, nothing for
\* clear); and setSync of IndexedDBStrategy posts before it creates the
\* transaction of the put, and returns while that transaction is pending and
\* the object store is as it was.
C31_LocalWriteBeforePublication ==
    \A i \in live, sync \in Forms :
        LET W == World(i)
        IN  /\ \A in \in SetInputs :
                  AllReflected(HybridWebCache_set(W, sync, in[1], in[2], in[3]).w)
            /\ \A keyPath \in Paths \cup {NoKeyPath} :
                  AllReflected(HybridWebCache_unset(W, sync, keyPath).w)
            /\ \A key \in RootKeys :
                  LET data == Data(Num(1), 0)
                      r == storageBase_set(W, sync, key, data)
                  IN  /\ AllReflected(r.w) /\ Len(r.w.posted) = 1
                      /\ (kind = "IndexedDB" /\ sync) =>
                             /\ r.w.seen[1].tx = W.tx
                             /\ r.w.tx = Append(W.tx, Tx("put", key, data))
                             /\ r.w.idb = W.idb

\* setSync on IndexedDB has returned: the Map holds the entry that was
\* posted, and the put is pending with the object store not yet holding the key
C31_Witness ==
    /\ kind = "IndexedDB" /\ last.op = "set" /\ last.sync /\ last.inst = 1
    /\ Len(last.posted) = 1 /\ last.posted[1].action = "sync"
    /\ MapHas(memoryCache[1], last.posted[1].key.s)
    /\ MapGet(memoryCache[1], last.posted[1].key.s) = last.posted[1].value
    /\ inbox[2] # <<>>
    /\ \E n \in 1..Len(pendingTx) :
          pendingTx[n].op = "put" /\ pendingTx[n].key = last.posted[1].key.s
    /\ ~MapHas(idb, last.posted[1].key.s)

\* C32: when the transaction of an awaited asynchronous set on IndexedDB
\* fails, the call is rejected, nothing is posted, no transaction is left to
\* try again, the object store is as it was, and the Map of the instance has
\* under the root key of the path the entry it had before the call, or none
\* if it had none.
C32_FailedSetLeavesMirror ==
    [][\A i \in Instances :
          (CallOf(i) /\ last'.op = "set" /\ last'.ret.err # "") =>
             LET key == getKey(last'.keyPath)
             IN  /\ last'.posted = <<>> /\ inbox' = inbox
                 /\ pendingTx' = <<>> /\ idb' = idb
                 /\ MapHas(memoryCache'[i], key) = MapHas(memoryCache[i], key)
                 /\ MapHas(memoryCache[i], key) =>
                        MapGet(memoryCache'[i], key) = MapGet(memoryCache[i], key)]_vars

\* C33: on LocalStorage and SessionStorage, with one instance and no other
\* writer, after a set, an unset with a path or a full clear has returned the
\* Map of the instance has the keys that the storage has under the prefix,
\* each with the value and expiresAt of the stored item, so that an instance
\* constructed then loads an equal Map.
C33_MirrorEqualsStore ==
    (kind \in {"LocalStorage", "SessionStorage"} /\ last.op \in {"set", "unset"}) =>
        MapFn(loadMemoryCache(webStorage[StorageOf(last.inst)])) = MapFn(memoryCache[last.inst])

\* C34: on IndexedDB, when init has returned the Map of the instance holds
\* exactly the records of the object store, so that getSync finds a path
\* exactly when get finds it; and a getSync of a key that only the object
\* store holds returns nothing found, throws nothing and changes nothing.
C34_InitLoadsMirror ==
    [][\A i \in Instances :
          (CallOf(i) /\ kind = "IndexedDB") =>
             /\ last'.op = "init" =>
                   /\ MapFn(memoryCache'[i]) = MapFn(idb')
                   /\ \A keyPath \in Paths, rem \in BOOLEAN :
                         Found(HybridWebCache_get(World(i)', TRUE, keyPath, rem).r)
                            = Found(HybridWebCache_get(World(i)', FALSE, keyPath, rem).r)
             /\ (/\ last'.op = "get" /\ last'.sync
                 /\ ~MapHas(memoryCache[i], getKey(last'.keyPath))
                 /\ MapHas(idb, getKey(last'.keyPath))) =>
                   /\ ~Found(last'.ret.get) /\ last'.ret.err = ""
                   /\ last'.posted = <<>>
                   /\ UNCHANGED <<memoryCache, idb, pendingTx, inbox>>]_vars

\* an instance constructed over an object store that holds records has
\* called init, and its Map holds those records
C34_Witness ==
    /\ kind = "IndexedDB" /\ last.op = "init" /\ restarts = 1
    /\ idb # <<>> /\ pendingTx = <<>>
    /\ MapFn(memoryCache[last.inst]) = MapFn(idb)

\* the put of the set of ['k', 'b'] that was called and not awaited, the last
\* of two writes, completes on a store that holds k.a = 1 and no k.b
SecondSetResolves ==
    /\ Len(pendingTx) = 1 /\ pendingTx[1].op = "putThen" /\ pendingTx' = <<>>
    /\ writes = 2 /\ reads = 0 /\ restarts = 0
    /\ last.op = "set" /\ ~last.sync /\ last.keyPath = Path(<< <<"k">>, <<"b">> >>)
    /\ MapHas(idb, <<"k">>)
    /\ lodashGet(MapGet(idb, <<"k">>).value, Str(<<"k", ".", "a">>)) = Num(1)
    /\ lodashGet(MapGet(idb, <<"k">>).value, Str(<<"k", ".", "b">>)) = Undefined

\* C35: on IndexedDB, when set('k.a', 1) and set(['k', 'b'], null) are called
\* on one instance, the second without awaiting, then once the put of the
\* second has completed both fields are found: k.a is 1 and k.b is null, in
\* the Map and in the object store; also when the first was not awaited
\* either and the store held no k.
C35_ConcurrentNestedSets ==
    [][SecondSetResolves =>
          \A m \in {memoryCache'[last.inst], idb'} :
              /\ MapHas(m, <<"k">>)
              /\ lodashGet(MapGet(m, <<"k">>).value, Str(<<"k", ".", "a">>)) = Num(1)
              /\ lodashGet(MapGet(m, <<"k">>).value, Str(<<"k", ".", "b">>)) = Null]_vars

\* C36: a set that has returned leaves the entry of the root key of its path
\* with the expiresAt computed from the TTL of that call, in the Map and in
\* localStorage or sessionStorage, whatever the entry had; and an unset of a
\* nested path after which the Map still holds the root key leaves the entry
\* with the expiresAt it had.
C36_ExpiryPerRootEntry ==
    [][\A i \in Instances :
          CallOf(i) =>
             LET key == getKey(last'.keyPath)
                 ws == webStorage'[StorageOf(i)]
             IN  /\ last'.op = "set" =>
                       /\ MapHas(memoryCache'[i], key)
                       /\ MapGet(memoryCache'[i], key).expiresAt = ExpiresAtFor(last'.ttl, now)
                       /\ kind \in {"LocalStorage", "SessionStorage"} =>
                              MapGet(ws, formattedKey(key)).expiresAt
                                 = ExpiresAtFor(last'.ttl, now)
                 /\ (/\ last'.op = "unset" /\ IsNested(last'.keyPath)
                     /\ MapHas(memoryCache[i], key) /\ MapHas(memoryCache'[i], key)) =>
                       /\ MapGet(memoryCache'[i], key).expiresAt
                             = MapGet(memoryCache[i], key).expiresAt
                       /\ kind \in {"LocalStorage", "SessionStorage"} =>
                              MapGet(ws, formattedKey(key)).expiresAt
                                 = MapGet(memoryCache[i], key).expiresAt]_vars

\* a field of an entry that expires has been unset, and the entry is still
\* held with an expiresAt
C36_Witness ==
    /\ last.op = "unset" /\ IsNested(last.keyPath) /\ last.ret.b
    /\ Len(last.posted) = 1 /\ last.posted[1].action = "sync"
    /\ MapHas(memoryCache[last.inst], getKey(last.keyPath))
    /\ MapGet(memoryCache[last.inst], getKey(last.keyPath)).expiresAt > 0

\* C37: an unset called with a path, the empty string included, leaves every
\* entry whose root key is not the root key of the path as it was, in the
\* Map and in the store, and creates no transaction that clears the object
\* store.
C37_UnsetKeepsOtherRoots ==
    [][\A i \in Instances :
          (CallOf(i) /\ last'.op = "unset" /\ last'.keyPath # NoKeyPath) =>
             LET key == getKey(last'.keyPath)
                 ws == webStorage[StorageOf(i)]
             IN  /\ \A k \in MapKeys(memoryCache[i]) \ {key} :
                       /\ MapHas(memoryCache'[i], k)
                       /\ MapGet(memoryCache'[i], k) = MapGet(memoryCache[i], k)
                 /\ \A k \in MapKeys(ws) \ {formattedKey(key)} :
                       /\ MapHas(webStorage'[StorageOf(i)], k)
                       /\ MapGet(webStorage'[StorageOf(i)], k) = MapGet(ws, k)
                 /\ \A k \in MapKeys(idb) \ {key} :
                       MapHas(idb', k) /\ MapGet(idb', k) = MapGet(idb, k)
                 /\ \A n \in (Len(pendingTx) + 1)..Len(pendingTx') :
                       pendingTx'[n].op # "clear"]_vars

\* C38: has and hasSync leave the Map of every instance, the storage, the
\* object store and its pending transactions as they were, and post
\* nothing, in every state.
C38_HasIsPure ==
    [][\A i \in Instances :
          (CallOf(i) /\ last'.op = "has") =>
             /\ last'.posted = <<>>
             /\ UNCHANGED <<memoryCache, webStorage, idb, pendingTx, inbox>>]_vars

\* C39: the handling of a message by instance i changes the Map of instance
\* i only: the storage, the object store, its transactions and the Maps of
\* the other instances are as they were and no message is posted to any
\* instance; and a call of set or unset posts at most one message, which
\* each other instance receives once.
C39_HandlingOnlyChangesMirror ==
    [][\A i \in Instances :
          /\ Delivered(i) =>
                /\ UNCHANGED <<webStorage, idb, pendingTx>>
                /\ \A j \in Instances \ {i} :
                      inbox'[j] = inbox[j] /\ memoryCache'[j] = memoryCache[j]
          /\ CallOf(i) =>
                /\ Len(last'.posted) <= 1
                /\ \A j \in Instances \ {i} : inbox'[j] = inbox[j] \o last'.posted
                /\ inbox'[i] = inbox[i]]_vars

\* the message of a set of instance 1 has been handled by instance 2, whose
\* Map holds the posted entry, and no message is left for any instance
C39_Witness ==
    /\ last.inst = 1 /\ last.op = "set" /\ writes = 1
    /\ Len(last.posted) = 1
    /\ inbox[1] = <<>> /\ inbox[2] = <<>>
    /\ MapHas(memoryCache[2], last.posted[1].key.s)
    /\ MapGet(memoryCache[2], last.posted[1].key.s) = last.posted[1].value

====
